---- MODULE Spec2Model ----
(***************************************************************************)
(* Verification model of the NES-Tetris engine (NassrEML/tetris-vibe-coded) *)
(* domain/*.js and controller/*.js, translated function by function.        *)
(* JS arrays are 0-based, TLA+ sequences 1-based: board[y][x] in the source *)
(* is board[y+1][x+1] here.  A JS null object is the record Null, a null    *)
(* cell (getCell out of range) is NullCell.                                 *)
(***************************************************************************)
EXTENDS Integers, Sequences, FiniteSets, TLC

VARIABLES gameState, inputState, gameLoop, events, run2, probe

vars == <<gameState, inputState, gameLoop, events, run2, probe>>

\* JS null: Null for a null object (piece, animation), NullSeq for a null
\* array (board, cell list), NullCell for getCell's null, NullKind for a
\* null piece kind
Null == [null |-> TRUE]
NullSeq == <<>>
NullCell == 0 - 1
NullKind == 0

\* the value of a JS const: The({e(c) : c \in {v}}) is e with v for c, v
\* being evaluated once
The(S) == CHOOSE v \in S : TRUE

Max(a, b) == IF a >= b THEN a ELSE b
Min(a, b) == IF a <= b THEN a ELSE b

(***************************************************************************)
(* board.js                                                                *)
(***************************************************************************)
BOARD_WIDTH == 10
BOARD_HEIGHT == 20
HIDDEN_ROWS == 2
TOTAL_ROWS == BOARD_HEIGHT + HIDDEN_ROWS

EmptyRow == [c \in 1..BOARD_WIDTH |-> 0]

createEmptyBoard == [r \in 1..TOTAL_ROWS |-> EmptyRow]

isValidPosition(board, x, y) ==
  y >= 0 /\ y < TOTAL_ROWS /\ x >= 0 /\ x < BOARD_WIDTH

getCell(board, x, y) ==
  IF ~isValidPosition(board, x, y) THEN NullCell ELSE board[y + 1][x + 1]

setCell(board, x, y, value) ==
  IF ~isValidPosition(board, x, y) THEN NullSeq
  ELSE [board EXCEPT ![y + 1][x + 1] = value]

isRowComplete(board, rowIndex) ==
  IF rowIndex < 0 \/ rowIndex >= TOTAL_ROWS THEN FALSE
  ELSE \A c \in 1..Len(board[rowIndex + 1]) : board[rowIndex + 1][c] # 0

\* the rows i..TOTAL_ROWS-1 that are not complete, in order (the push loop)
RECURSIVE KeptRows(_, _)
KeptRows(board, i) ==
  IF i >= TOTAL_ROWS THEN <<>>
  ELSE IF ~isRowComplete(board, i)
       THEN <<board[i + 1]>> \o KeptRows(board, i + 1)
       ELSE KeptRows(board, i + 1)

\* a clear that adds the empty rows at the floor (push for unshift)
ClearLinesPadBelow(board) ==
  The({ [board |-> kept \o [i \in 1..(TOTAL_ROWS - Len(kept)) |-> EmptyRow],
         clearedLines |-> TOTAL_ROWS - Len(kept)]
        : kept \in {KeptRows(board, 0)} })

clearLines(board) ==
  The({ [board |-> [i \in 1..(TOTAL_ROWS - Len(kept)) |-> EmptyRow] \o kept,
         clearedLines |-> TOTAL_ROWS - Len(kept)]
        : kept \in {KeptRows(board, 0)} })

\* the for-loop of placePiece over piece.cells, from cell index i
RECURSIVE PlaceCells(_, _, _)
PlaceCells(board, piece, i) ==
  IF i > Len(piece.cells) THEN board
  ELSE LET result == setCell(board, piece.x + piece.cells[i].x,
                                    piece.y + piece.cells[i].y, piece.type)
       IN IF result = NullSeq THEN NullSeq ELSE PlaceCells(result, piece, i + 1)

\* a placement that writes kind 1 whatever the kind of the piece
PlacePieceKindOne(board, piece) ==
  PlaceCells(board, [piece EXCEPT !.type = 1], 1)

placePiece(board, piece) == PlaceCells(board, piece, 1)

(***************************************************************************)
(* piece.js                                                                *)
(***************************************************************************)
C(cx, cy) == [x |-> cx, y |-> cy]

PIECES ==
  [t \in 1..7 |->
    CASE t = 1 -> [type |-> 1, spawnX |-> 3, spawnY |-> 0, rotations |->
           << <<C(0,1), C(1,1), C(2,1), C(3,1)>>,
              <<C(2,0), C(2,1), C(2,2), C(2,3)>>,
              <<C(0,2), C(1,2), C(2,2), C(3,2)>>,
              <<C(1,0), C(1,1), C(1,2), C(1,3)>> >>]
      [] t = 2 -> [type |-> 2, spawnX |-> 4, spawnY |-> 0, rotations |->
           << <<C(0,0), C(1,0), C(0,1), C(1,1)>>,
              <<C(0,0), C(1,0), C(0,1), C(1,1)>>,
              <<C(0,0), C(1,0), C(0,1), C(1,1)>>,
              <<C(0,0), C(1,0), C(0,1), C(1,1)>> >>]
      [] t = 3 -> [type |-> 3, spawnX |-> 3, spawnY |-> 0, rotations |->
           << <<C(1,0), C(0,1), C(1,1), C(2,1)>>,
              <<C(1,0), C(1,1), C(2,1), C(1,2)>>,
              <<C(0,1), C(1,1), C(2,1), C(1,2)>>,
              <<C(1,0), C(0,1), C(1,1), C(1,2)>> >>]
      [] t = 4 -> [type |-> 4, spawnX |-> 3, spawnY |-> 0, rotations |->
           << <<C(1,0), C(2,0), C(0,1), C(1,1)>>,
              <<C(1,0), C(1,1), C(2,1), C(2,2)>>,
              <<C(1,1), C(2,1), C(0,2), C(1,2)>>,
              <<C(0,0), C(0,1), C(1,1), C(1,2)>> >>]
      [] t = 5 -> [type |-> 5, spawnX |-> 3, spawnY |-> 0, rotations |->
           << <<C(0,0), C(1,0), C(1,1), C(2,1)>>,
              <<C(2,0), C(1,1), C(2,1), C(1,2)>>,
              <<C(0,1), C(1,1), C(1,2), C(2,2)>>,
              <<C(1,0), C(0,1), C(1,1), C(0,2)>> >>]
      [] t = 6 -> [type |-> 6, spawnX |-> 3, spawnY |-> 0, rotations |->
           << <<C(0,0), C(0,1), C(1,1), C(2,1)>>,
              <<C(1,0), C(2,0), C(1,1), C(1,2)>>,
              <<C(0,1), C(1,1), C(2,1), C(2,2)>>,
              <<C(1,0), C(1,1), C(0,2), C(1,2)>> >>]
      [] t = 7 -> [type |-> 7, spawnX |-> 3, spawnY |-> 0, rotations |->
           << <<C(2,0), C(0,1), C(1,1), C(2,1)>>,
              <<C(1,0), C(1,1), C(1,2), C(2,2)>>,
              <<C(0,1), C(1,1), C(2,1), C(0,2)>>,
              <<C(0,0), C(1,0), C(1,1), C(1,2)>> >>]]

createPiece(type) ==
  The({ IF type \notin DOMAIN pieces THEN Null
        ELSE [type |-> pieces[type].type, x |-> pieces[type].spawnX,
              y |-> pieces[type].spawnY, rotation |-> 0,
              cells |-> pieces[type].rotations[1]]
        : pieces \in {PIECES} })

getPieceCells(type, x, y, rotation) ==
  The({ IF type \notin DOMAIN pieces THEN NullSeq
        ELSE The({ [i \in 1..Len(relativeCells) |->
                      [x |-> x + relativeCells[i].x,
                       y |-> y + relativeCells[i].y]]
                   : relativeCells \in
                       {pieces[type].rotations[(((rotation % 4) + 4) % 4) + 1]} })
        : pieces \in {PIECES} })

rotatePiece(piece, direction) ==
  LET newRotation == (((piece.rotation + direction) % 4) + 4) % 4
  IN [piece EXCEPT !.rotation = newRotation,
                   !.cells = PIECES[piece.type].rotations[newRotation + 1]]

movePiece(piece, deltaX, deltaY) ==
  [piece EXCEPT !.x = piece.x + deltaX, !.y = piece.y + deltaY]

(***************************************************************************)
(* collision.js                                                            *)
(***************************************************************************)
checkCollision(board, pieceType, x, y, rotation) ==
  \E cells \in {getPieceCells(pieceType, x, y, rotation)} :
     IF cells = NullSeq THEN TRUE
     ELSE \E i \in 1..Len(cells) :
            \/ cells[i].x < 0 \/ cells[i].x >= BOARD_WIDTH
            \/ cells[i].y < 0 \/ cells[i].y >= TOTAL_ROWS
            \/ getCell(board, cells[i].x, cells[i].y) = NullCell
            \/ getCell(board, cells[i].x, cells[i].y) # 0

canMovePiece(board, piece, deltaX, deltaY) ==
  ~checkCollision(board, piece.type, piece.x + deltaX, piece.y + deltaY,
                  piece.rotation)

canRotatePiece(board, piece, newRotation) ==
  ~checkCollision(board, piece.type, piece.x, piece.y, newRotation)

isPieceTouchingFloor(board, piece) ==
  checkCollision(board, piece.type, piece.x, piece.y + 1, piece.rotation)

getPieceSpawnX(pieceType) == IF pieceType = 2 THEN 4 ELSE 3

getPieceSpawnY(pieceType) == 0

canSpawnPiece(board, pieceType) ==
  IF pieceType = NullKind \/ pieceType < 1 \/ pieceType > 7 THEN FALSE
  ELSE ~checkCollision(board, pieceType, getPieceSpawnX(pieceType),
                       getPieceSpawnY(pieceType), 0)

(***************************************************************************)
(* rotation.js                                                             *)
(***************************************************************************)
\* a rotation that tries one column to the left when it does not fit
TryRotateKick(board, piece, direction) ==
  LET newRotation == (((piece.rotation + direction) % 4) + 4) % 4
      kicked == [piece EXCEPT !.x = piece.x - 1]
  IN IF ~checkCollision(board, piece.type, piece.x, piece.y, newRotation)
     THEN [success |-> TRUE, piece |-> rotatePiece(piece, direction)]
     ELSE IF ~checkCollision(board, piece.type, piece.x - 1, piece.y,
                             newRotation)
     THEN [success |-> TRUE, piece |-> rotatePiece(kicked, direction)]
     ELSE [success |-> FALSE, piece |-> piece]

tryRotate(board, piece, direction) ==
  LET newRotation == (((piece.rotation + direction) % 4) + 4) % 4
      wouldCollide == checkCollision(board, piece.type, piece.x, piece.y,
                                     newRotation)
  IN IF wouldCollide THEN [success |-> FALSE, piece |-> piece]
     ELSE [success |-> TRUE, piece |-> rotatePiece(piece, direction)]

(***************************************************************************)
(* randomizer.js.  A JS number holding an unsigned 32-bit value is the     *)
(* record [hi, lo] of its two 16-bit halves.  lcgStep is evaluated as the  *)
(* source evaluates it: MULTIPLIER * current and "+ INCREMENT" are IEEE-754 *)
(* double operations (53-bit significand, round to nearest, ties to even),  *)
(* and ">>> 0" keeps the low 32 bits of the resulting integer.  Integers    *)
(* wider than 31 bits are little-endian byte sequences.                     *)
(***************************************************************************)
U32(h, l) == [hi |-> h, lo |-> l]

LCG_MULTIPLIER == U32(16838, 20077)   \* 0x41C64E6D
LCG_INCREMENT == 12345                \* 0x3039
PIECE_COUNT == 7

RECURSIVE Pow2(_)
Pow2(n) == IF n = 0 THEN 1 ELSE 2 * Pow2(n - 1)

ToBytes(u) == <<u.lo % 256, u.lo \div 256, u.hi % 256, u.hi \div 256>>

\* column k (0-based) of the schoolbook product of two 4-byte numbers
MulColumn(a, b, k) ==
  LET T(i) == IF k - i >= 0 /\ k - i <= 3 THEN a[i + 1] * b[k - i + 1] ELSE 0
  IN T(0) + T(1) + T(2) + T(3)

RECURSIVE MulFrom(_, _, _, _)
MulFrom(a, b, k, carry) ==
  IF k > 7 THEN <<>>
  ELSE LET s == carry + MulColumn(a, b, k)
       IN <<s % 256>> \o MulFrom(a, b, k + 1, s \div 256)

MulBytes(a, b) == MulFrom(a, b, 0, 0)

RECURSIVE AddFrom(_, _, _)
AddFrom(bytes, i, carry) ==
  IF i > Len(bytes) THEN <<>>
  ELSE LET s == bytes[i] + carry
       IN <<s % 256>> \o AddFrom(bytes, i + 1, s \div 256)

\* bytes + n for a small non-negative n
AddSmall(bytes, n) == AddFrom(bytes, 1, n)

RECURSIVE BitLenInt(_)
BitLenInt(n) == IF n = 0 THEN 0 ELSE 1 + BitLenInt(n \div 2)

RECURSIVE BitLenFrom(_, _)
BitLenFrom(bytes, i) ==
  IF i = 0 THEN 0
  ELSE IF bytes[i] # 0 THEN 8 * (i - 1) + BitLenInt(bytes[i])
  ELSE BitLenFrom(bytes, i - 1)

BitLen(bytes) == BitLenFrom(bytes, Len(bytes))

\* the integer nearest to the value that a double can hold (ties to even)
RoundToDouble(bytes) ==
  LET k == BitLen(bytes) - 53
  IN IF k <= 0 THEN bytes
     ELSE LET low == bytes[1] + 256 * bytes[2]
              r == low % Pow2(k)
              half == Pow2(k - 1)
              qOdd == (low \div Pow2(k)) % 2 = 1
              up == r > half \/ (r = half /\ qOdd)
              newLow == (low - r) + (IF up THEN Pow2(k) ELSE 0)
          IN AddSmall([bytes EXCEPT ![1] = 0, ![2] = 0], newLow)

lcgStep(current) ==
  The({ U32(sum[3] + 256 * sum[4], sum[1] + 256 * sum[2])
        : sum \in {RoundToDouble(
                     AddSmall(RoundToDouble(MulBytes(ToBytes(LCG_MULTIPLIER),
                                                     ToBytes(current))),
                              LCG_INCREMENT))} })

\* (lcgValue >>> 10) is below 2^22, so "& 0x7FFFFFFF" keeps all of it
lcgToPieceType(lcgValue) ==
  LET value == lcgValue.hi * 64 + (lcgValue.lo \div 1024)
  IN (value % PIECE_COUNT) + 1

\* createRandomizer(seed): with no seed the source draws
\* Math.floor(Math.random() * 0x7FFFFFFF); the caller supplies that draw
createRandomizer(seed) == [seed |-> seed, current |-> seed]

nextPiece(randomizer) ==
  The({ [pieceType |-> lcgToPieceType(newCurrent),
         randomizer |-> [randomizer EXCEPT !.current = newCurrent]]
        : newCurrent \in {lcgStep(randomizer.current)} })

(***************************************************************************)
(* gravity.js                                                              *)
(***************************************************************************)
GRAVITY_TABLE ==
  <<48, 43, 38, 33, 28, 23, 18, 13, 8, 6, 5, 5, 5, 4, 4, 4, 3, 3, 3, 2, 2>>

getGravityForLevel(level) ==
  LET index == Max(0, Min(level, Len(GRAVITY_TABLE) - 1))
  IN GRAVITY_TABLE[index + 1]

createGravity(level) ==
  [level |-> level, framesPerDrop |-> getGravityForLevel(level),
   frameCounter |-> 0]

\* a tick that lets the piece fall one frame late
GravityTickLate(gravity) ==
  LET newFrameCounter == gravity.frameCounter + 1
      shouldFall == newFrameCounter > gravity.framesPerDrop
  IN [shouldFall |-> shouldFall,
      gravity |-> [gravity EXCEPT
                     !.frameCounter = IF shouldFall THEN 0 ELSE newFrameCounter]]

\* a tick that makes the fall due one frame early
GravityTickEarly(gravity) ==
  LET newFrameCounter == gravity.frameCounter + 1
      shouldFall == newFrameCounter >= gravity.framesPerDrop - 1
  IN [shouldFall |-> shouldFall,
      gravity |-> [gravity EXCEPT
                     !.frameCounter = IF shouldFall THEN 0 ELSE newFrameCounter]]

\* a tick whose counter is never reset
GravityTickNoReset(gravity) ==
  LET newFrameCounter == gravity.frameCounter + 1
      shouldFall == newFrameCounter >= gravity.framesPerDrop
  IN [shouldFall |-> shouldFall,
      gravity |-> [gravity EXCEPT !.frameCounter = newFrameCounter]]

gravityTick(gravity) ==
  LET newFrameCounter == gravity.frameCounter + 1
      shouldFall == newFrameCounter >= gravity.framesPerDrop
  IN [shouldFall |-> shouldFall,
      gravity |-> [gravity EXCEPT
                     !.frameCounter = IF shouldFall THEN 0 ELSE newFrameCounter]]

gravityUpdateLevel(gravity, newLevel) ==
  [gravity EXCEPT !.level = newLevel,
                  !.framesPerDrop = getGravityForLevel(newLevel),
                  !.frameCounter = 0]

resetCounter(gravity) == [gravity EXCEPT !.frameCounter = 0]

(***************************************************************************)
(* das.js                                                                  *)
(***************************************************************************)
DAS_DELAY_FRAMES == 16
DAS_ARR_FRAMES == 6
DIRECTION_LEFT == 0 - 1
DIRECTION_RIGHT == 1
DIRECTION_NONE == 0

createDAS ==
  [direction |-> DIRECTION_NONE, counter |-> 0, isActive |-> FALSE,
   lastMoveFrame |-> 0]

\* a tick that activates auto-repeat one frame early
DasTickEarly(das, currentFrame) ==
  LET newCounter == das.counter + 1
  IN IF das.direction = DIRECTION_NONE
     THEN [shouldMove |-> FALSE, direction |-> DIRECTION_NONE,
           das |-> createDAS]
     ELSE IF das.counter = 0
     THEN [shouldMove |-> TRUE, direction |-> das.direction,
           das |-> [das EXCEPT !.counter = newCounter, !.isActive = FALSE,
                               !.lastMoveFrame = currentFrame]]
     ELSE IF ~das.isActive /\ newCounter >= DAS_DELAY_FRAMES
     THEN [shouldMove |-> TRUE, direction |-> das.direction,
           das |-> [das EXCEPT !.counter = newCounter, !.isActive = TRUE,
                               !.lastMoveFrame = currentFrame]]
     ELSE IF das.isActive
             /\ (newCounter - DAS_DELAY_FRAMES - 1) % DAS_ARR_FRAMES = 0
     THEN [shouldMove |-> TRUE, direction |-> das.direction,
           das |-> [das EXCEPT !.counter = newCounter,
                               !.lastMoveFrame = currentFrame]]
     ELSE [shouldMove |-> FALSE, direction |-> das.direction,
           das |-> [das EXCEPT !.counter = newCounter]]

dasTick(das, currentFrame) ==
  LET newCounter == das.counter + 1
  IN IF das.direction = DIRECTION_NONE
     THEN [shouldMove |-> FALSE, direction |-> DIRECTION_NONE,
           das |-> createDAS]
     ELSE IF das.counter = 0
     THEN [shouldMove |-> TRUE, direction |-> das.direction,
           das |-> [das EXCEPT !.counter = newCounter, !.isActive = FALSE,
                               !.lastMoveFrame = currentFrame]]
     ELSE IF ~das.isActive /\ newCounter > DAS_DELAY_FRAMES
     THEN [shouldMove |-> TRUE, direction |-> das.direction,
           das |-> [das EXCEPT !.counter = newCounter, !.isActive = TRUE,
                               !.lastMoveFrame = currentFrame]]
     ELSE IF das.isActive
             /\ (newCounter - DAS_DELAY_FRAMES - 1) % DAS_ARR_FRAMES = 0
     THEN [shouldMove |-> TRUE, direction |-> das.direction,
           das |-> [das EXCEPT !.counter = newCounter,
                               !.lastMoveFrame = currentFrame]]
     ELSE [shouldMove |-> FALSE, direction |-> das.direction,
           das |-> [das EXCEPT !.counter = newCounter]]

Infinity == "Infinity"

getFramesUntilNextMove(das) ==
  IF das.direction = DIRECTION_NONE
  THEN Infinity
  ELSE IF das.counter = 0
  THEN 0
  ELSE IF ~das.isActive
  THEN DAS_DELAY_FRAMES - das.counter
  ELSE DAS_ARR_FRAMES
         - ((das.counter - DAS_DELAY_FRAMES) % DAS_ARR_FRAMES)

\* a setDirection that restarts the timing whatever the direction
SetDirectionRestart(das, direction) ==
  [das EXCEPT !.direction = direction, !.counter = 0,
              !.isActive = FALSE, !.lastMoveFrame = 0]

setDirection(das, direction) ==
  IF direction # das.direction
  THEN [das EXCEPT !.direction = direction, !.counter = 0,
                   !.isActive = FALSE, !.lastMoveFrame = 0]
  ELSE das

moveLeft(board, piece) ==
  IF canMovePiece(board, piece, DIRECTION_LEFT, 0)
  THEN [success |-> TRUE, piece |-> movePiece(piece, DIRECTION_LEFT, 0)]
  ELSE [success |-> FALSE, piece |-> piece]

\* a shift that does not ask whether the piece fits
MoveRightUnchecked(board, piece) ==
  [success |-> TRUE, piece |-> movePiece(piece, DIRECTION_RIGHT, 0)]

moveRight(board, piece) ==
  IF canMovePiece(board, piece, DIRECTION_RIGHT, 0)
  THEN [success |-> TRUE, piece |-> movePiece(piece, DIRECTION_RIGHT, 0)]
  ELSE [success |-> FALSE, piece |-> piece]

\* a tick that leaves the timer alone when the shift is blocked
TickAndMoveHoldTimer(board, piece, das, currentFrame) ==
  The({ IF ~tickResult.shouldMove \/ tickResult.direction = DIRECTION_NONE
        THEN [moved |-> FALSE, piece |-> piece, das |-> tickResult.das,
              direction |-> tickResult.direction]
        ELSE The({ [moved |-> moveResult.success, piece |-> moveResult.piece,
                    das |-> IF moveResult.success THEN tickResult.das ELSE das,
                    direction |-> tickResult.direction]
                   : moveResult \in
                       {IF tickResult.direction = DIRECTION_LEFT
                        THEN moveLeft(board, piece)
                        ELSE moveRight(board, piece)} })
        : tickResult \in {dasTick(das, currentFrame)} })

tickAndMove(board, piece, das, currentFrame) ==
  The({ IF ~tickResult.shouldMove \/ tickResult.direction = DIRECTION_NONE
        THEN [moved |-> FALSE, piece |-> piece, das |-> tickResult.das,
              direction |-> tickResult.direction]
        ELSE The({ [moved |-> moveResult.success, piece |-> moveResult.piece,
                    das |-> tickResult.das,
                    direction |-> tickResult.direction]
                   : moveResult \in
                       {IF tickResult.direction = DIRECTION_LEFT
                        THEN moveLeft(board, piece)
                        ELSE moveRight(board, piece)} })
        : tickResult \in {dasTick(das, currentFrame)} })

(***************************************************************************)
(* lock.js                                                                 *)
(***************************************************************************)
NoError == "null"

shouldLock(board, piece) == isPieceTouchingFloor(board, piece)

\* a lock that asks for the floor before it asks for the place of the piece
LockPieceFloorFirst(board, piece) ==
  IF piece = Null \/ piece.type = NullKind \/ piece.cells = NullSeq
  THEN [board |-> NullSeq, locked |-> FALSE, error |-> "Invalid piece"]
  ELSE IF ~isPieceTouchingFloor(board, piece)
  THEN [board |-> NullSeq, locked |-> FALSE,
        error |-> "Piece not touching floor"]
  ELSE IF checkCollision(board, piece.type, piece.x, piece.y, piece.rotation)
  THEN [board |-> NullSeq, locked |-> FALSE,
        error |-> "Piece in invalid position"]
  ELSE The({ IF newBoard = NullSeq
             THEN [board |-> NullSeq, locked |-> FALSE,
                   error |-> "Failed to place piece"]
             ELSE [board |-> newBoard, locked |-> TRUE, error |-> NoError]
             : newBoard \in {placePiece(board, piece)} })

\* a lock that does not check the place of the piece itself
LockPieceOverlapping(board, piece) ==
  IF piece = Null \/ piece.type = NullKind \/ piece.cells = NullSeq
  THEN [board |-> NullSeq, locked |-> FALSE, error |-> "Invalid piece"]
  ELSE IF ~isPieceTouchingFloor(board, piece)
  THEN [board |-> NullSeq, locked |-> FALSE,
        error |-> "Piece not touching floor"]
  ELSE The({ IF newBoard = NullSeq
             THEN [board |-> NullSeq, locked |-> FALSE,
                   error |-> "Failed to place piece"]
             ELSE [board |-> newBoard, locked |-> TRUE, error |-> NoError]
             : newBoard \in {placePiece(board, piece)} })

lockPiece(board, piece) ==
  IF piece = Null \/ piece.type = NullKind \/ piece.cells = NullSeq
  THEN [board |-> NullSeq, locked |-> FALSE, error |-> "Invalid piece"]
  ELSE IF checkCollision(board, piece.type, piece.x, piece.y, piece.rotation)
  THEN [board |-> NullSeq, locked |-> FALSE,
        error |-> "Piece in invalid position"]
  ELSE IF ~isPieceTouchingFloor(board, piece)
  THEN [board |-> NullSeq, locked |-> FALSE,
        error |-> "Piece not touching floor"]
  ELSE The({ IF newBoard = NullSeq
             THEN [board |-> NullSeq, locked |-> FALSE,
                   error |-> "Failed to place piece"]
             ELSE [board |-> newBoard, locked |-> TRUE, error |-> NoError]
             : newBoard \in {placePiece(board, piece)} })

lockAndClear(board, piece) ==
  The({ IF ~lockResult.locked
        THEN [board |-> NullSeq, locked |-> FALSE, clearedLines |-> 0,
              error |-> lockResult.error]
        ELSE The({ [board |-> clearResult.board, locked |-> TRUE,
                    clearedLines |-> clearResult.clearedLines,
                    error |-> NoError]
                   : clearResult \in {clearLines(lockResult.board)} })
        : lockResult \in {lockPiece(board, piece)} })

createLockState ==
  [isLocked |-> FALSE, lockedAtFrame |-> Null, lockedPiece |-> Null]

(***************************************************************************)
(* scoring.js                                                              *)
(***************************************************************************)
SCORE_TABLE == <<40, 100, 300, 1200>>
SOFT_DROP_POINTS == 1

\* a score that takes a negative level as it comes
CalculateLineClearScoreNoClamp(linesCleared, level) ==
  IF linesCleared < 1 \/ linesCleared > 4 THEN 0
  ELSE SCORE_TABLE[linesCleared] * (level + 1)

\* base score times the level, as the comment above the function has it
CalculateLineClearScoreTimesLevel(linesCleared, level) ==
  IF linesCleared < 1 \/ linesCleared > 4 THEN 0
  ELSE SCORE_TABLE[linesCleared] * (IF level < 0 THEN 0 ELSE level)

calculateLineClearScore(linesCleared, level) ==
  IF linesCleared < 1 \/ linesCleared > 4 THEN 0
  ELSE SCORE_TABLE[linesCleared] * ((IF level < 0 THEN 0 ELSE level) + 1)

calculateSoftDropScore(cellsDropped) ==
  IF cellsDropped <= 0 THEN 0 ELSE cellsDropped * SOFT_DROP_POINTS

createScoreState ==
  [totalScore |-> 0, linesCleared |-> 0, tetrises |-> 0, softDropCells |-> 0,
   softDropScore |-> 0, lastClearScore |-> 0, highScore |-> 0]

addLineClearScore(scoreState, linesCleared, level) ==
  LET points == calculateLineClearScore(linesCleared, level)
      newTotalScore == scoreState.totalScore + points
  IN [scoreState EXCEPT
        !.totalScore = newTotalScore,
        !.linesCleared = scoreState.linesCleared + linesCleared,
        !.tetrises = scoreState.tetrises + (IF linesCleared = 4 THEN 1 ELSE 0),
        !.lastClearScore = points,
        !.highScore = Max(newTotalScore, scoreState.highScore)]

addSoftDropScore(scoreState, cellsDropped) ==
  LET points == calculateSoftDropScore(cellsDropped)
  IN [scoreState EXCEPT
        !.totalScore = scoreState.totalScore + points,
        !.softDropCells = scoreState.softDropCells + cellsDropped,
        !.softDropScore = scoreState.softDropScore + points,
        !.highScore = Max(scoreState.totalScore + points, scoreState.highScore)]

(***************************************************************************)
(* level.js                                                                *)
(***************************************************************************)
LINES_PER_LEVEL == 10
MAX_LEVEL == 99

\* the level with no cap
CalculateLevelUncapped(totalLines, startLevel) ==
  LET lines == IF totalLines < 0 THEN 0 ELSE totalLines
      start == IF startLevel < 0 THEN 0 ELSE startLevel
  IN start + (lines \div LINES_PER_LEVEL)

calculateLevel(totalLines, startLevel) ==
  LET lines == IF totalLines < 0 THEN 0 ELSE totalLines
      start == IF startLevel < 0 THEN 0 ELSE startLevel
  IN Min(start + (lines \div LINES_PER_LEVEL), MAX_LEVEL)

getLinesUntilNextLevel(totalLines, startLevel) ==
  LET lines == IF totalLines < 0 THEN 0 ELSE totalLines
  IN LINES_PER_LEVEL - (lines % LINES_PER_LEVEL)

createLevelState(startLevel) ==
  LET validStartLevel == Max(0, Min(startLevel, MAX_LEVEL))
  IN [currentLevel |-> validStartLevel, startLevel |-> validStartLevel,
      totalLines |-> 0, linesUntilNext |-> LINES_PER_LEVEL,
      gravity |-> createGravity(validStartLevel)]

updateAfterClear(levelState, linesCleared) ==
  LET previousLevel == levelState.currentLevel
      newTotalLines == levelState.totalLines + linesCleared
      newLevel == calculateLevel(newTotalLines, levelState.startLevel)
      leveledUp == newLevel > previousLevel
      newGravity == IF leveledUp
                    THEN gravityUpdateLevel(levelState.gravity, newLevel)
                    ELSE levelState.gravity
  IN [levelState |-> [levelState EXCEPT
                        !.currentLevel = newLevel,
                        !.totalLines = newTotalLines,
                        !.linesUntilNext =
                           getLinesUntilNextLevel(newTotalLines,
                                                  levelState.startLevel),
                        !.gravity = newGravity],
      leveledUp |-> leveledUp, previousLevel |-> previousLevel]

(***************************************************************************)
(* gameState.js.  startGame and createGameState call createRandomizer()    *)
(* with no seed: randomSeed is the value Math.random() yields there.       *)
(***************************************************************************)
createGameState(startLevel, randomSeed) ==
  [state |-> "title",
   board |-> createEmptyBoard,
   currentPiece |-> Null,
   nextPiece |-> NullKind,
   score |-> createScoreState,
   level |-> createLevelState(startLevel),
   randomizer |-> createRandomizer(randomSeed),
   gravity |-> createGravity(startLevel),
   das |-> createDAS,
   lock |-> createLockState,
   frameCount |-> 0,
   gameOverAnimation |-> Null]

startGame(gs, startLevel, randomSeed) ==
  The({ [gs EXCEPT
           !.state = "playing",
           !.board = createEmptyBoard,
           !.currentPiece = Null,
           !.nextPiece = secondPieceResult.pieceType,
           !.score = createScoreState,
           !.level = createLevelState(startLevel),
           !.randomizer = secondPieceResult.randomizer,
           !.gravity = createGravity(startLevel),
           !.das = createDAS,
           !.lock = createLockState,
           !.frameCount = 0,
           !.gameOverAnimation = Null]
        : secondPieceResult \in
            {nextPiece(nextPiece(createRandomizer(randomSeed)).randomizer)} })

\* a fill animation that starts at the last visible row
SetGameOverVisibleRow(gs) ==
  [gs EXCEPT !.state = "gameover",
             !.gameOverAnimation =
                [active |-> TRUE, currentRow |-> BOARD_HEIGHT - 1,
                 completed |-> FALSE]]

setGameOver(gs) ==
  [gs EXCEPT !.state = "gameover",
             !.gameOverAnimation =
                [active |-> TRUE, currentRow |-> 21, completed |-> FALSE]]

pauseGame(gs) ==
  IF gs.state = "playing" THEN [gs EXCEPT !.state = "paused"] ELSE gs

resumeGame(gs) ==
  IF gs.state = "paused" THEN [gs EXCEPT !.state = "playing"] ELSE gs

\* returnToTitle of gameState.js (gameController.js has its own)
returnToTitleState(gs) ==
  [gs EXCEPT !.state = "title", !.currentPiece = Null, !.nextPiece = NullKind,
             !.gameOverAnimation = Null]

spawnPieceState(gs, piece) ==
  [gs EXCEPT !.currentPiece = piece, !.das = createDAS,
             !.lock = createLockState]

setNextPiece(gs, pieceType) == [gs EXCEPT !.nextPiece = pieceType]

updateBoard(gs, board) == [gs EXCEPT !.board = board]

updateCurrentPiece(gs, piece) == [gs EXCEPT !.currentPiece = piece]

updateScore(gs, score) == [gs EXCEPT !.score = score]

updateLevel(gs, level) == [gs EXCEPT !.level = level]

updateRandomizer(gs, randomizer) == [gs EXCEPT !.randomizer = randomizer]

isPlaying(gs) == gs.state = "playing"

(***************************************************************************)
(* gameOver.js                                                             *)
(***************************************************************************)
checkGameOver(board, pieceType) == ~canSpawnPiece(board, pieceType)

triggerGameOver(gs) == setGameOver(gs)

\* a fill colour that does not wrap to the 7 piece colours
FillColorNoWrap(x, currentRow) == x + currentRow + 1

\* the colour the fill loop writes at column x of row currentRow
FillColor(x, currentRow) == ((x + currentRow) % 7) + 1

\* the for-loop over x of advanceGameOverAnimation, from column x
RECURSIVE FillRow(_, _, _)
FillRow(board, currentRow, x) ==
  IF x >= BOARD_WIDTH THEN board
  ELSE LET result == setCell(board, x, currentRow, FillColor(x, currentRow))
       IN FillRow(IF result # NullSeq THEN result ELSE board, currentRow, x + 1)

advanceGameOverAnimation(gs) ==
  IF gs.gameOverAnimation = Null \/ ~gs.gameOverAnimation.active
  THEN [gameState |-> gs, completed |-> TRUE]
  ELSE LET currentRow == gs.gameOverAnimation.currentRow
           newBoard == IF currentRow >= 0 /\ currentRow < TOTAL_ROWS
                       THEN FillRow(gs.board, currentRow, 0)
                       ELSE gs.board
           completed == currentRow <= 0
       IN [gameState |->
             [gs EXCEPT !.board = newBoard,
                        !.gameOverAnimation =
                           [gs.gameOverAnimation EXCEPT
                              !.currentRow = currentRow - 1,
                              !.completed = completed]],
           completed |-> completed]

isGameOverAnimationActive(gs) ==
  /\ gs.gameOverAnimation # Null
  /\ gs.gameOverAnimation.active
  /\ ~gs.gameOverAnimation.completed

(***************************************************************************)
(* inputController.js                                                      *)
(***************************************************************************)
KEY_MOVE_LEFT == {"a", "A"}
KEY_MOVE_RIGHT == {"d", "D"}
KEY_ROTATE_CCW == {"ArrowLeft"}
KEY_ROTATE_CW == {"ArrowRight"}
KEY_SOFT_DROP == {"ArrowDown"}
KEY_PAUSE == {"p", "P"}
KEY_START == {"Enter", " "}
KEY_RESET == {"r", "R", "Escape"}

createInputState ==
  [keysPressed |-> {}, keysJustPressed |-> {}, keysJustReleased |-> {},
   dasDirection |-> DIRECTION_NONE, softDropActive |-> FALSE,
   actionQueue |-> <<>>]

handleKeyDown(is, key) ==
  IF key \in is.keysPressed THEN is
  ELSE [keysPressed |-> is.keysPressed \cup {key},
        keysJustPressed |-> is.keysJustPressed \cup {key},
        keysJustReleased |-> is.keysJustReleased,
        dasDirection |-> IF key \in KEY_MOVE_LEFT THEN DIRECTION_LEFT
                         ELSE IF key \in KEY_MOVE_RIGHT THEN DIRECTION_RIGHT
                         ELSE is.dasDirection,
        softDropActive |-> IF key \in KEY_SOFT_DROP THEN TRUE
                           ELSE is.softDropActive,
        actionQueue |->
          IF key \in KEY_ROTATE_CCW THEN Append(is.actionQueue, "rotateCCW")
          ELSE IF key \in KEY_ROTATE_CW THEN Append(is.actionQueue, "rotateCW")
          ELSE IF key \in KEY_PAUSE THEN Append(is.actionQueue, "pause")
          ELSE IF key \in KEY_START THEN Append(is.actionQueue, "start")
          ELSE IF key \in KEY_RESET THEN Append(is.actionQueue, "reset")
          ELSE is.actionQueue]

handleKeyUp(is, key) ==
  IF key \notin is.keysPressed THEN is
  ELSE LET newKeysPressed == is.keysPressed \ {key}
           hasLeft == \E k \in KEY_MOVE_LEFT : k \in newKeysPressed
           hasRight == \E k \in KEY_MOVE_RIGHT : k \in newKeysPressed
       IN [keysPressed |-> newKeysPressed,
           keysJustPressed |-> is.keysJustPressed,
           keysJustReleased |-> is.keysJustReleased \cup {key},
           dasDirection |-> IF hasLeft /\ ~hasRight THEN DIRECTION_LEFT
                            ELSE IF hasRight /\ ~hasLeft THEN DIRECTION_RIGHT
                            ELSE DIRECTION_NONE,
           softDropActive |-> \E k \in KEY_SOFT_DROP : k \in newKeysPressed,
           actionQueue |-> is.actionQueue]

clearTransientKeys(is) ==
  [is EXCEPT !.keysJustPressed = {}, !.keysJustReleased = {},
             !.actionQueue = <<>>]

\* null (no action) is the string "null"
getNextAction(is) ==
  IF Len(is.actionQueue) = 0 THEN "null" ELSE is.actionQueue[1]

consumeAction(is) ==
  IF Len(is.actionQueue) = 0 THEN is
  ELSE [is EXCEPT !.actionQueue = Tail(is.actionQueue)]

getDASDirection(is) == is.dasDirection

isSoftDropping(is) == is.softDropActive

(***************************************************************************)
(* gameLoop.js.  Time is counted in units of 1/120 s, so that               *)
(* FRAME_DURATION_MS (1000/60 ms) is 2 units; performance.now() is the      *)
(* currentTime argument.  frameCallbacks and rafId are never read.          *)
(***************************************************************************)
FRAME_DURATION == 2

createGameLoop ==
  [isRunning |-> FALSE, lastFrameTime |-> 0, accumulator |-> 0,
   frameCount |-> 0]

startGameLoop(gl, currentTime) ==
  IF gl.isRunning THEN gl
  ELSE [gl EXCEPT !.isRunning = TRUE, !.lastFrameTime = currentTime]

\* one iteration of the catch-up loop of updateFrame
FrameBody(gl, gs, is) ==
  LET dasDirection == getDASDirection(is)
      dasWithDirection == setDirection(gs.das, dasDirection)
      dasResult == dasTick(dasWithDirection, gl.frameCount)
      gravityResult == gravityTick(gs.gravity)
  IN [gameLoop |-> [gl EXCEPT !.accumulator = gl.accumulator - FRAME_DURATION],
      gameState |-> [gs EXCEPT !.das = dasResult.das,
                               !.gravity = gravityResult.gravity,
                               !.frameCount = gs.frameCount + 1],
      inputState |-> clearTransientKeys(is)]

RECURSIVE FrameLoop(_, _, _)
FrameLoop(gl, gs, is) ==
  IF gl.accumulator >= FRAME_DURATION
  THEN The({ FrameLoop(r.gameLoop, r.gameState, r.inputState)
             : r \in {FrameBody(gl, gs, is)} })
  ELSE [gameLoop |-> gl, gameState |-> gs, inputState |-> is]

updateFrame(gl, gs, is, currentTime) ==
  IF ~gl.isRunning
  THEN [gameLoop |-> gl, gameState |-> gs, inputState |-> is]
  ELSE LET deltaTime == IF gl.lastFrameTime > 0
                        THEN currentTime - gl.lastFrameTime
                        ELSE FRAME_DURATION
       IN FrameLoop([gl EXCEPT !.lastFrameTime = currentTime,
                               !.accumulator = gl.accumulator + deltaTime,
                               !.frameCount = gl.frameCount + 1],
                    gs, is)

shouldApplyGravity(gs) == gs.gravity.frameCounter = 0 /\ gs.frameCount > 0

shouldApplyDAS(gs) ==
  LET das == gs.das
  IN IF das.direction = 0 THEN FALSE
     ELSE IF das.counter = 1 THEN TRUE
     ELSE IF das.isActive THEN (das.counter - 16) % 6 = 0
     ELSE FALSE

resetGravity(gs) == [gs EXCEPT !.gravity = resetCounter(gs.gravity)]

(***************************************************************************)
(* gameController.js                                                       *)
(***************************************************************************)
initGame(startLevel, randomSeed) == createGameState(startLevel, randomSeed)

startNewGame(gs, startLevel, randomSeed) ==
  The({ The({ The({ updateRandomizer(
                      setNextPiece(
                        spawnPieceState(
                          newState, createPiece(firstPieceResult.pieceType)),
                        nextPieceResult.pieceType),
                      nextPieceResult.randomizer)
                    : nextPieceResult \in
                        {nextPiece(firstPieceResult.randomizer)} })
              : firstPieceResult \in {nextPiece(newState.randomizer)} })
        : newState \in {startGame(gs, startLevel, randomSeed)} })

\* a spawn that draws the next kind and leaves the randomizer where it was
SpawnNewPieceSameDraw(gs) ==
  IF checkGameOver(gs.board, gs.nextPiece)
  THEN [gameState |-> triggerGameOver(gs), gameOver |-> TRUE]
  ELSE The({ [gameState |->
                resetGravity(
                  setNextPiece(spawnPieceState(gs, createPiece(gs.nextPiece)),
                               randomizerResult.pieceType)),
              gameOver |-> FALSE]
             : randomizerResult \in {nextPiece(gs.randomizer)} })

spawnNewPiece(gs) ==
  IF checkGameOver(gs.board, gs.nextPiece)
  THEN [gameState |-> triggerGameOver(gs), gameOver |-> TRUE]
  ELSE The({ [gameState |->
                resetGravity(
                  updateRandomizer(
                    setNextPiece(spawnPieceState(gs, createPiece(gs.nextPiece)),
                                 randomizerResult.pieceType),
                    randomizerResult.randomizer)),
              gameOver |-> FALSE]
             : randomizerResult \in {nextPiece(gs.randomizer)} })

movePieceLeft(gs) ==
  IF gs.currentPiece = Null \/ ~isPlaying(gs) THEN gs
  ELSE The({ IF moveResult.success
             THEN updateCurrentPiece(gs, moveResult.piece) ELSE gs
             : moveResult \in {moveLeft(gs.board, gs.currentPiece)} })

movePieceRight(gs) ==
  IF gs.currentPiece = Null \/ ~isPlaying(gs) THEN gs
  ELSE The({ IF moveResult.success
             THEN updateCurrentPiece(gs, moveResult.piece) ELSE gs
             : moveResult \in {moveRight(gs.board, gs.currentPiece)} })

rotatePieceClockwise(gs) ==
  IF gs.currentPiece = Null \/ ~isPlaying(gs) THEN gs
  ELSE updateCurrentPiece(gs, tryRotate(gs.board, gs.currentPiece, 1).piece)

rotatePieceCounterClockwise(gs) ==
  IF gs.currentPiece = Null \/ ~isPlaying(gs) THEN gs
  ELSE updateCurrentPiece(gs,
                          tryRotate(gs.board, gs.currentPiece, 0 - 1).piece)

\* a soft drop that does not look below the piece
SoftDropUnchecked(gs) ==
  IF gs.currentPiece = Null \/ ~isPlaying(gs)
  THEN [gameState |-> gs, dropped |-> FALSE, cellsDropped |-> 0]
  ELSE [gameState |->
          updateCurrentPiece(
            updateScore(gs, addSoftDropScore(gs.score, 1)),
            [gs.currentPiece EXCEPT !.y = gs.currentPiece.y + 1]),
        dropped |-> TRUE, cellsDropped |-> 1]

softDrop(gs) ==
  IF gs.currentPiece = Null \/ ~isPlaying(gs)
  THEN [gameState |-> gs, dropped |-> FALSE, cellsDropped |-> 0]
  ELSE IF canMovePiece(gs.board, gs.currentPiece, 0, 1)
  THEN [gameState |->
          updateCurrentPiece(
            updateScore(gs, addSoftDropScore(gs.score, 1)),
            [gs.currentPiece EXCEPT !.y = gs.currentPiece.y + 1]),
        dropped |-> TRUE, cellsDropped |-> 1]
  ELSE [gameState |-> gs, dropped |-> FALSE, cellsDropped |-> 0]

\* a fall of two rows where two are free
ApplyGravityTwoRows(gs) ==
  IF gs.currentPiece = Null \/ ~isPlaying(gs)
  THEN [gameState |-> gs, fell |-> FALSE]
  ELSE IF canMovePiece(gs.board, gs.currentPiece, 0, 1)
  THEN [gameState |->
          updateCurrentPiece(gs, [gs.currentPiece EXCEPT
                                    !.y = IF canMovePiece(gs.board,
                                                          gs.currentPiece, 0, 2)
                                          THEN gs.currentPiece.y + 2
                                          ELSE gs.currentPiece.y + 1]),
        fell |-> TRUE]
  ELSE [gameState |-> gs, fell |-> FALSE]

applyGravity(gs) ==
  IF gs.currentPiece = Null \/ ~isPlaying(gs)
  THEN [gameState |-> gs, fell |-> FALSE]
  ELSE IF canMovePiece(gs.board, gs.currentPiece, 0, 1)
  THEN [gameState |->
          updateCurrentPiece(gs, [gs.currentPiece EXCEPT
                                    !.y = gs.currentPiece.y + 1]),
        fell |-> TRUE]
  ELSE [gameState |-> gs, fell |-> FALSE]

lockCurrentPiece(gs) ==
  IF gs.currentPiece = Null \/ ~isPlaying(gs)
  THEN [gameState |-> gs, locked |-> FALSE, linesCleared |-> 0]
  ELSE IF ~shouldLock(gs.board, gs.currentPiece)
  THEN [gameState |-> gs, locked |-> FALSE, linesCleared |-> 0]
  ELSE The({
    IF ~lockResult.locked
    THEN [gameState |-> gs, locked |-> FALSE, linesCleared |-> 0,
          error |-> lockResult.error]
    ELSE The({
      The({
        The({ [gameState |->
                 IF lockResult.clearedLines > 0
                 THEN IF levelResult.leveledUp
                      THEN [levelState EXCEPT
                              !.gravity = levelResult.levelState.gravity]
                      ELSE levelState
                 ELSE boardState,
               locked |-> TRUE, linesCleared |-> lockResult.clearedLines]
              : levelState \in
                  {updateLevel(
                     updateScore(
                       boardState,
                       addLineClearScore(boardState.score,
                                         lockResult.clearedLines,
                                         boardState.level.currentLevel)),
                     levelResult.levelState)} })
        : levelResult \in
            {updateAfterClear(boardState.level, lockResult.clearedLines)} })
      : boardState \in {updateBoard(gs, lockResult.board)} })
    : lockResult \in {lockAndClear(gs.board, gs.currentPiece)} })

\* the while-loop of processInput: one action of the queue per iteration
RECURSIVE InputLoop(_, _)
InputLoop(gs, is) ==
  LET action == getNextAction(is)
  IN IF action = "null" THEN [gameState |-> gs, inputState |-> is]
     ELSE InputLoop(CASE action = "rotateCCW" -> rotatePieceCounterClockwise(gs)
                      [] action = "rotateCW" -> rotatePieceClockwise(gs)
                      [] OTHER -> gs,
                    consumeAction(is))

processInput(gs, is) == InputLoop(gs, is)

\* a gravity branch that reports the cleared lines in an event of their own
GravityStepLinesEvent(gs, evs) ==
  The({
    IF gravityResult.fell
    THEN [gameState |-> gravityResult.gameState,
          events |-> Append(evs, [type |-> "PIECE_FELL"])]
    ELSE The({
      IF ~lockResult.locked
      THEN [gameState |-> gravityResult.gameState, events |-> evs]
      ELSE The({ [gameState |-> spawnResult.gameState,
                  events |->
                    Append(Append(Append(evs, [type |-> "PIECE_LOCKED"]),
                                  [type |-> "LINES_CLEARED",
                                   linesCleared |-> lockResult.linesCleared]),
                           IF spawnResult.gameOver
                           THEN [type |-> "GAME_OVER"]
                           ELSE [type |-> "PIECE_SPAWNED"])]
                 : spawnResult \in {spawnNewPiece(lockResult.gameState)} })
      : lockResult \in {lockCurrentPiece(gravityResult.gameState)} })
    : gravityResult \in {applyGravity(gs)} })

\* a gravity branch that reports the next piece before the lock
GravityStepSpawnFirst(gs, evs) ==
  The({
    IF gravityResult.fell
    THEN [gameState |-> gravityResult.gameState,
          events |-> Append(evs, [type |-> "PIECE_FELL"])]
    ELSE The({
      IF ~lockResult.locked
      THEN [gameState |-> gravityResult.gameState, events |-> evs]
      ELSE The({ [gameState |-> spawnResult.gameState,
                  events |->
                    Append(Append(evs,
                                  IF spawnResult.gameOver
                                  THEN [type |-> "GAME_OVER"]
                                  ELSE [type |-> "PIECE_SPAWNED"]),
                           [type |-> "PIECE_LOCKED",
                            linesCleared |-> lockResult.linesCleared])]
                 : spawnResult \in {spawnNewPiece(lockResult.gameState)} })
      : lockResult \in {lockCurrentPiece(gravityResult.gameState)} })
    : gravityResult \in {applyGravity(gs)} })

\* the gravity branch of updateGame, on the state and events so far
GravityStep(gs, evs) ==
  The({
    IF gravityResult.fell
    THEN [gameState |-> gravityResult.gameState,
          events |-> Append(evs, [type |-> "PIECE_FELL"])]
    ELSE The({
      IF ~lockResult.locked
      THEN [gameState |-> gravityResult.gameState, events |-> evs]
      ELSE The({ [gameState |-> spawnResult.gameState,
                  events |->
                    Append(Append(evs,
                                  [type |-> "PIECE_LOCKED",
                                   linesCleared |-> lockResult.linesCleared]),
                           IF spawnResult.gameOver
                           THEN [type |-> "GAME_OVER"]
                           ELSE [type |-> "PIECE_SPAWNED"])]
                 : spawnResult \in {spawnNewPiece(lockResult.gameState)} })
      : lockResult \in {lockCurrentPiece(gravityResult.gameState)} })
    : gravityResult \in {applyGravity(gs)} })

updateGame(gs, is) ==
  IF ~isPlaying(gs)
  THEN IF isGameOverAnimationActive(gs)
       THEN The({ [gameState |-> animationResult.gameState,
                   events |-> IF animationResult.completed
                              THEN <<[type |-> "GAME_OVER_ANIMATION_COMPLETE"]>>
                              ELSE <<>>]
                  : animationResult \in {advanceGameOverAnimation(gs)} })
       ELSE [gameState |-> gs, events |-> <<>>]
  ELSE The({
    The({
      The({
        The({ IF shouldApplyGravity(softDropResult.gameState)
              THEN GravityStep(softDropResult.gameState, dropEvs)
              ELSE [gameState |-> softDropResult.gameState,
                    events |-> dropEvs]
              : dropEvs \in
                  {IF softDropResult.dropped
                   THEN <<[type |-> "SOFT_DROP",
                           cells |-> softDropResult.cellsDropped]>>
                   ELSE <<>>} })
        : softDropResult \in
            {IF isSoftDropping(is) THEN softDrop(afterDAS)
             ELSE [gameState |-> afterDAS, dropped |-> FALSE,
                   cellsDropped |-> 0]} })
      : afterDAS \in
          {IF shouldApplyDAS(afterInput)
           THEN IF afterInput.das.direction = DIRECTION_LEFT
                THEN movePieceLeft(afterInput)
                ELSE IF afterInput.das.direction = DIRECTION_RIGHT
                THEN movePieceRight(afterInput)
                ELSE afterInput
           ELSE afterInput} })
    : afterInput \in {processInput(gs, is).gameState} })

\* a toggle that restarts the gravity timer on resume
TogglePauseRestartGravity(gs) ==
  IF gs.state = "playing" THEN [gs EXCEPT !.state = "paused"]
  ELSE IF gs.state = "paused"
  THEN [gs EXCEPT !.state = "playing", !.gravity.frameCounter = 0]
  ELSE gs

togglePause(gs) ==
  IF gs.state = "playing" THEN [gs EXCEPT !.state = "paused"]
  ELSE IF gs.state = "paused" THEN [gs EXCEPT !.state = "playing"]
  ELSE gs

\* gameController.returnToTitle ignores its argument: createGameState()
returnToTitle(gs, randomSeed) == createGameState(0, randomSeed)

(***************************************************************************)
(* Environment.  The repository has no driver (main.js is a stub).  The     *)
(* lock-step driver below is the one the timers are written for             *)
(* (shouldApplyGravity and shouldApplyDAS read the counters after the       *)
(* tick): per animation frame updateFrame runs with one frame of elapsed    *)
(* time and updateGame then runs once on the state and input it returned.   *)
(* Key events arrive between animation frames, while no game is over.       *)
(***************************************************************************)
\* seeds: values Math.floor(Math.random() * 0x7FFFFFFF) may yield
Seeds == {U32(0, 3), U32(0, 9)}

\* start levels offered to initGame and startNewGame: every entry of the
\* gravity table, and a level beyond it
StartLevels == (0..20) \cup {29}

\* keys the player uses: shift right, soft drop
PlayKeys == {"d", "ArrowDown"}

\* the key of a player who only drops the pieces
DropKeys == {"ArrowDown"}

\* gravity periods explored after the start of a game
MaxDrops == 2

\* performance.now() when the frame loop is started
LoopStartTime == 2

HasEvent(evs, t) == \E i \in 1..Len(evs) : evs[i].type = t

\* what tick of das.js returns besides the new state
NoTick == [shouldMove |-> FALSE, direction |-> DIRECTION_NONE]

\* history kept for the properties: the frame at which the active piece
\* spawned, the number of frames the DAS direction had been held when the
\* last frame ran, and what the DAS tick of the last frame returned
FrameProbe(spawnFrame, hold, tick) ==
  [spawnFrame |-> spawnFrame, hold |-> hold, tick |-> tick]

\* the frame loop is started once a game is on
StartGameLoop ==
  /\ ~gameLoop.isRunning
  /\ gameState.state # "title"
  /\ gameLoop' = startGameLoop(gameLoop, LoopStartTime)
  /\ UNCHANGED <<gameState, inputState, events, run2, probe>>

StartNewGame(levels) ==
  /\ gameState.state \in {"title", "gameover"}
  /\ \E startLevel \in levels, randomSeed \in Seeds :
       gameState' = startNewGame(gameState, startLevel, randomSeed)
  /\ events' = <<>>
  /\ probe' = FrameProbe(0, 0, NoTick)
  /\ UNCHANGED <<inputState, gameLoop, run2>>

KeyDown(keys) ==
  /\ gameState.state # "gameover"
  /\ \E key \in keys :
       /\ key \notin inputState.keysPressed
       /\ inputState' = handleKeyDown(inputState, key)
  /\ UNCHANGED <<gameState, gameLoop, events, run2, probe>>

KeyUp(keys) ==
  /\ gameState.state # "gameover"
  /\ \E key \in keys :
       /\ key \in inputState.keysPressed
       /\ inputState' = handleKeyUp(inputState, key)
  /\ UNCHANGED <<gameState, gameLoop, events, run2, probe>>

\* the DAS tick of the one loop iteration updateFrame runs in StepFrame
FrameTick(gl, gs, is) ==
  dasTick(setDirection(gs.das, getDASDirection(is)), gl.frameCount + 1)

\* one animation frame; the fill animation of a finished game runs on past
\* the frame limit
StepFrame(limit) ==
  /\ gameLoop.isRunning
  /\ gameState.frameCount < limit \/ isGameOverAnimationActive(gameState)
  /\ \E f \in {updateFrame(gameLoop, gameState, inputState,
                            gameLoop.lastFrameTime + FRAME_DURATION)} :
       \E g \in {updateGame(f.gameState, f.inputState)},
          t \in {FrameTick(gameLoop, gameState, inputState)} :
         /\ gameLoop' = f.gameLoop
         /\ inputState' = f.inputState
         /\ gameState' = g.gameState
         /\ events' = g.events
         /\ probe' = FrameProbe(
                       IF HasEvent(g.events, "PIECE_SPAWNED")
                       THEN g.gameState.frameCount ELSE probe.spawnFrame,
                       IF /\ getDASDirection(inputState) # DIRECTION_NONE
                          /\ getDASDirection(inputState)
                               = gameState.das.direction
                       THEN probe.hold + 1 ELSE 0,
                       [shouldMove |-> t.shouldMove, direction |-> t.direction])
  /\ UNCHANGED run2

Init ==
  /\ \E startLevel \in StartLevels, randomSeed \in Seeds :
       gameState = initGame(startLevel, randomSeed)
  /\ inputState = createInputState
  /\ gameLoop = createGameLoop
  /\ events = <<>>
  /\ run2 = Null
  /\ probe = FrameProbe(0, 0, NoTick)

\* a game from its construction: the player may start to soft-drop
Next ==
  \/ StartGameLoop
  \/ StartNewGame(StartLevels)
  \/ KeyDown(DropKeys)
  \/ StepFrame(MaxDrops * gameState.gravity.framesPerDrop)

Spec == Init /\ [][Next]_vars

(***************************************************************************)
(* A game in progress.  WellBoard is the board after 40 pieces locked with  *)
(* no line cleared and no soft drop: columns 0..8 filled from row 6 down     *)
(* (vertical I pieces), rows 4 and 5 filled except columns 4 and 5 (two O    *)
(* and two L pieces), column 9 open below row 6.  An O piece dropped in the  *)
(* notch completes rows 4 and 5; a piece locked on top of the stack leaves   *)
(* no room for the next spawn.                                              *)
(***************************************************************************)
PieceAt(type, x, y, rotation) ==
  [createPiece(type) EXCEPT !.x = x, !.y = y, !.rotation = rotation,
                            !.cells = PIECES[type].rotations[rotation + 1]]

\* vertical I pieces filling columns 0..8 of rows top..top+3
LayerPieces(top) == [i \in 1..9 |-> PieceAt(1, i - 3, top, 1)]

RECURSIVE Stack(_, _, _)
Stack(board, pieces, i) ==
  IF i > Len(pieces) THEN board
  ELSE Stack(lockAndClear(board, pieces[i]).board, pieces, i + 1)

Layer1Board == Stack(createEmptyBoard, LayerPieces(18), 1)
Layer2Board == Stack(Layer1Board, LayerPieces(14), 1)
Layer3Board == Stack(Layer2Board, LayerPieces(10), 1)
Layer4Board == Stack(Layer3Board, LayerPieces(6), 1)

WellBoard ==
  Stack(Layer4Board,
        <<PieceAt(2, 0, 4, 0), PieceAt(2, 2, 4, 0),
          PieceAt(7, 7, 4, 0), PieceAt(7, 6, 3, 2)>>, 1)

\* level of the game in progress (2 frames per drop)
PlayLevel == 19

\* logical frame at which the game in progress is picked up
PlayFrame == 1000

\* logical frames explored from there
MaxPlayFrames == 10

\* the game in progress: the state startNewGame builds, 40 pieces later
PlayState(randomSeed) ==
  [startNewGame(initGame(PlayLevel, randomSeed), PlayLevel, randomSeed)
     EXCEPT !.board = WellBoard, !.frameCount = PlayFrame]

PlayLoop ==
  [isRunning |-> TRUE,
   lastFrameTime |-> LoopStartTime + FRAME_DURATION * PlayFrame,
   accumulator |-> 0,
   frameCount |-> PlayFrame]

InitPlay ==
  /\ \E randomSeed \in Seeds : gameState = PlayState(randomSeed)
  /\ inputState = createInputState
  /\ gameLoop = PlayLoop
  /\ events = <<>>
  /\ run2 = Null
  /\ probe = FrameProbe(PlayFrame, 0, NoTick)

NextPlay ==
  \/ KeyDown(PlayKeys)
  \/ KeyUp(PlayKeys)
  \/ StepFrame(PlayFrame + MaxPlayFrames)

SpecPlay == InitPlay /\ [][NextPlay]_vars

(***************************************************************************)
(* The DAS timer under keys held for a long time: a game from its           *)
(* construction at level 0; the player presses the shift keys and holds     *)
(* them.                                                                    *)
(***************************************************************************)
ShiftKeys == {"a", "d"}

\* logical frames explored
MaxDASFrames == 62

NextDAS ==
  \/ StartGameLoop
  \/ StartNewGame({0})
  \/ KeyDown(ShiftKeys)
  \/ StepFrame(MaxDASFrames)

SpecDAS == Init /\ [][NextDAS]_vars

(***************************************************************************)
(* Any interleaving of key events, updateFrame and updateGame, on the game  *)
(* in progress.  updateFrame is called with the time the caller reads;      *)
(* updateGame is called with the input state as it is, and returns none.    *)
(***************************************************************************)
LoopKeys == {"ArrowRight", "d", "ArrowDown"}

\* elapsed times between two calls of updateFrame: half a frame, one, two
DeltaTimes == {1, 2, 4}

\* calls of updateFrame explored
MaxLoopFrames == 2

\* calls of updateGame between two calls of updateFrame
MaxCalls == 2

\* queued actions
MaxQueue == 2

\* history kept for the properties: for each queued action the number of
\* times updateGame has applied it, whether an action left the queue
\* without having been applied, and the calls of updateGame since the last
\* call of updateFrame
LoopProbe(applied, discarded, calls) ==
  [applied |-> applied, discarded |-> discarded, calls |-> calls]

LoopKeyDown ==
  /\ gameState.state # "gameover"
  /\ Len(inputState.actionQueue) < MaxQueue
  /\ \E key \in LoopKeys :
       /\ key \notin inputState.keysPressed
       /\ inputState' = handleKeyDown(inputState, key)
       /\ probe' = [probe EXCEPT !.applied =
                      IF Len(inputState'.actionQueue) > Len(inputState.actionQueue)
                      THEN Append(probe.applied, 0) ELSE probe.applied]
  /\ UNCHANGED <<gameState, gameLoop, events, run2>>

UpdateFrame ==
  /\ gameLoop.frameCount < PlayFrame + MaxLoopFrames
  /\ \E deltaTime \in DeltaTimes :
       \E f \in {updateFrame(gameLoop, gameState, inputState,
                              gameLoop.lastFrameTime + deltaTime)} :
         \E cleared \in {Len(f.inputState.actionQueue)
                            < Len(inputState.actionQueue)} :
           /\ gameLoop' = f.gameLoop
           /\ gameState' = f.gameState
           /\ inputState' = f.inputState
           /\ probe' = LoopProbe(
                         IF cleared THEN <<>> ELSE probe.applied,
                         probe.discarded
                           \/ (cleared /\ \E i \in 1..Len(probe.applied) :
                                            probe.applied[i] = 0),
                         0)
  /\ UNCHANGED <<events, run2>>

UpdateGame ==
  /\ probe.calls < MaxCalls
  /\ \E g \in {updateGame(gameState, inputState)} :
        /\ gameState' = g.gameState
        /\ events' = g.events
        /\ probe' = LoopProbe(
                      IF isPlaying(gameState)
                      THEN [i \in 1..Len(probe.applied) |->
                              Min(probe.applied[i] + 1, 2)]
                      ELSE probe.applied,
                      probe.discarded,
                      probe.calls + 1)
  /\ UNCHANGED <<inputState, gameLoop, run2>>

InitLoop ==
  /\ \E randomSeed \in Seeds : gameState = PlayState(randomSeed)
  /\ inputState = createInputState
  /\ gameLoop = PlayLoop
  /\ events = <<>>
  /\ run2 = Null
  /\ probe = LoopProbe(<<>>, FALSE, 0)

NextLoop ==
  \/ LoopKeyDown
  \/ UpdateFrame
  \/ UpdateGame

SpecLoop == InitLoop /\ [][NextLoop]_vars

(***************************************************************************)
(* Two runs of the game, created with the same seed and fed the same        *)
(* inputs frame by frame.  Each call of startNewGame takes its own value    *)
(* of Math.random().                                                        *)
(***************************************************************************)
\* start levels of the two runs
RunLevels == {0, 19}

\* logical frames explored
MaxRunFrames == 4

InitTwoRuns ==
  /\ \E startLevel \in RunLevels, randomSeed \in Seeds :
       /\ gameState = initGame(startLevel, randomSeed)
       /\ run2 = initGame(startLevel, randomSeed)
  /\ inputState = createInputState
  /\ gameLoop = createGameLoop
  /\ events = <<>>
  /\ probe = FrameProbe(0, 0, NoTick)

StartBoth ==
  /\ gameState.state \in {"title", "gameover"}
  /\ \E startLevel \in RunLevels, random1 \in Seeds, random2 \in Seeds :
       /\ gameState' = startNewGame(gameState, startLevel, random1)
       /\ run2' = startNewGame(run2, startLevel, random2)
  /\ events' = <<>>
  /\ UNCHANGED <<inputState, gameLoop, probe>>

StepBoth ==
  /\ gameLoop.isRunning
  /\ gameState.frameCount < MaxRunFrames
  /\ \E f1 \in {updateFrame(gameLoop, gameState, inputState,
                             gameLoop.lastFrameTime + FRAME_DURATION)},
        f2 \in {updateFrame(gameLoop, run2, inputState,
                             gameLoop.lastFrameTime + FRAME_DURATION)} :
       \E g1 \in {updateGame(f1.gameState, f1.inputState)},
          g2 \in {updateGame(f2.gameState, f2.inputState)} :
         /\ gameLoop' = f1.gameLoop
         /\ inputState' = f1.inputState
         /\ gameState' = g1.gameState
         /\ run2' = g2.gameState
         /\ events' = g1.events
  /\ UNCHANGED probe

NextTwoRuns ==
  \/ StartGameLoop
  \/ StartBoth
  \/ KeyDown(PlayKeys)
  \/ KeyUp(PlayKeys)
  \/ StepBoth

SpecTwoRuns == InitTwoRuns /\ [][NextTwoRuns]_vars

(***************************************************************************)
(* One rotation of a piece anywhere on a board: every kind, orientation and *)
(* position at which the piece fits, on the empty board and on WellBoard.   *)
(***************************************************************************)
RotBoards == {createEmptyBoard, WellBoard}

\* leftmost column of a piece's box: a vertical I in column 0 has x = -2
MinPieceX == 0 - 2

\* probe of the rotation: the piece before, the direction, what tryRotate
\* returned
RotateProbe(piece, direction, result) ==
  [rotated |-> TRUE, piece |-> piece, direction |-> direction,
   result |-> result]

InitRotate ==
  /\ \E board \in RotBoards, type \in DOMAIN PIECES,
        x \in MinPieceX..(BOARD_WIDTH - 1), y \in 0..(TOTAL_ROWS - 1),
        rotation \in 0..3 :
       /\ ~checkCollision(board, type, x, y, rotation)
       /\ gameState = [PlayState(U32(0, 3)) EXCEPT
                         !.board = board,
                         !.currentPiece = PieceAt(type, x, y, rotation)]
  /\ inputState = createInputState
  /\ gameLoop = PlayLoop
  /\ events = <<>>
  /\ run2 = Null
  /\ probe = [rotated |-> FALSE]

RotateClockwise ==
  /\ ~probe.rotated
  /\ gameState' = rotatePieceClockwise(gameState)
  /\ probe' = RotateProbe(gameState.currentPiece, 1,
                          tryRotate(gameState.board, gameState.currentPiece, 1))
  /\ UNCHANGED <<inputState, gameLoop, events, run2>>

RotateCounterClockwise ==
  /\ ~probe.rotated
  /\ gameState' = rotatePieceCounterClockwise(gameState)
  /\ probe' = RotateProbe(gameState.currentPiece, 0 - 1,
                          tryRotate(gameState.board, gameState.currentPiece,
                                    0 - 1))
  /\ UNCHANGED <<inputState, gameLoop, events, run2>>

NextRotate ==
  \/ RotateClockwise
  \/ RotateCounterClockwise

SpecRotate == InitRotate /\ [][NextRotate]_vars

(***************************************************************************)
(* The game-over scenario: a game in progress whose two hidden rows have    *)
(* been filled cell by cell, with the active piece anywhere it fits.        *)
(***************************************************************************)
\* the board with its hidden rows filled, as the scenario's setCell loop
\* fills them
FillSpawnRows(board) ==
  [y \in 1..TOTAL_ROWS |->
     IF y <= HIDDEN_ROWS THEN [x \in 1..BOARD_WIDTH |-> 1] ELSE board[y]]

BlockedBoards == {FillSpawnRows(createEmptyBoard), FillSpawnRows(WellBoard)}

\* logical frames explored
MaxBlockedFrames == 3

InitBlocked ==
  /\ \E board \in BlockedBoards, type \in DOMAIN PIECES,
        x \in MinPieceX..(BOARD_WIDTH - 1), y \in 0..(TOTAL_ROWS - 1),
        randomSeed \in Seeds :
       /\ ~checkCollision(board, type, x, y, 0)
       /\ gameState = [PlayState(randomSeed) EXCEPT
                         !.board = board,
                         !.currentPiece = PieceAt(type, x, y, 0)]
  /\ inputState = createInputState
  /\ gameLoop = PlayLoop
  /\ events = <<>>
  /\ run2 = Null
  /\ probe = FrameProbe(PlayFrame, 0, NoTick)

NextBlocked ==
  \/ KeyDown(DropKeys)
  \/ StepFrame(PlayFrame + MaxBlockedFrames)

SpecBlocked == InitBlocked /\ [][NextBlocked]_vars

(***************************************************************************)
(* The status operations, called in any state of the game in progress:      *)
(* startNewGame, togglePause, pauseGame, resumeGame and the two             *)
(* returnToTitle, interleaved with the animation frames.                    *)
(***************************************************************************)
\* start levels of a new game
NewGameLevels == {0, 19}

\* calls of updateFrame explored
MaxStatusFrames == 4

StartAnyGame ==
  /\ \E startLevel \in NewGameLevels, randomSeed \in Seeds :
       gameState' = startNewGame(gameState, startLevel, randomSeed)
  /\ events' = <<>>
  /\ UNCHANGED <<inputState, gameLoop, run2, probe>>

TogglePause ==
  /\ gameState' = togglePause(gameState)
  /\ events' = <<>>
  /\ UNCHANGED <<inputState, gameLoop, run2, probe>>

PauseGame ==
  /\ gameState' = pauseGame(gameState)
  /\ events' = <<>>
  /\ UNCHANGED <<inputState, gameLoop, run2, probe>>

ResumeGame ==
  /\ gameState' = resumeGame(gameState)
  /\ events' = <<>>
  /\ UNCHANGED <<inputState, gameLoop, run2, probe>>

ReturnToTitle ==
  /\ \E randomSeed \in Seeds :
       gameState' = returnToTitle(gameState, randomSeed)
  /\ events' = <<>>
  /\ UNCHANGED <<inputState, gameLoop, run2, probe>>

ReturnToTitleState ==
  /\ gameState' = returnToTitleState(gameState)
  /\ events' = <<>>
  /\ UNCHANGED <<inputState, gameLoop, run2, probe>>

StatusFrame ==
  /\ gameLoop.frameCount < PlayFrame + MaxStatusFrames
  /\ StepFrame(PlayFrame + MaxStatusFrames)

NextStatus ==
  \/ KeyDown(DropKeys)
  \/ StatusFrame
  \/ StartAnyGame
  \/ TogglePause
  \/ PauseGame
  \/ ResumeGame
  \/ ReturnToTitle
  \/ ReturnToTitleState

SpecStatus == InitPlay /\ [][NextStatus]_vars

(***************************************************************************)
(* Line clears.  The boards are engineered as in lock.test.js: complete     *)
(* rows and rows complete but for a gap, and the I piece that fills the     *)
(* gap, one row above its landing place or on it.  The game has cleared     *)
(* some lines before, so that the clear may cross a level boundary.         *)
(***************************************************************************)
\* rows `full' filled, rows `gapped' filled but for the columns `gap'
GapBoard(full, gapped, gap) ==
  [y \in 1..TOTAL_ROWS |->
     [x \in 1..BOARD_WIDTH |->
        IF (y - 1) \in full \/ ((y - 1) \in gapped /\ (x - 1) \notin gap)
        THEN 1 ELSE 0]]

\* the bottom n rows open in column 9 under a vertical I (n = 1..4), and the
\* "should clear multiple lines" scenario under a horizontal I
ClearCases ==
  { [board |-> GapBoard({}, (TOTAL_ROWS - n)..(TOTAL_ROWS - 1),
                        {BOARD_WIDTH - 1}),
     piece |-> PieceAt(1, BOARD_WIDTH - 3, TOTAL_ROWS - 4, 1)] : n \in 1..4 }
    \cup
  { [board |-> GapBoard((TOTAL_ROWS - 3)..(TOTAL_ROWS - 1),
                        {TOTAL_ROWS - 4}, 3..6),
     piece |-> PieceAt(1, 3, TOTAL_ROWS - 5, 0)] }

\* start levels of the games
ClearLevels == {0, 9, 98, 120}

\* line clears of the game so far: none, 8 lines, 9 lines
ClearHistories == {<<>>, <<4, 4>>, <<4, 4, 1>>}

\* logical frames explored
MaxClearFrames == 3

\* the score and level updates of lockCurrentPiece, clear after clear
RECURSIVE AfterClears(_, _, _)
AfterClears(gs, clears, i) ==
  IF i > Len(clears) THEN gs
  ELSE The({ AfterClears(
               [gs EXCEPT
                  !.score = addLineClearScore(gs.score, clears[i],
                                              gs.level.currentLevel),
                  !.level = levelResult.levelState,
                  !.gravity = IF levelResult.leveledUp
                              THEN levelResult.levelState.gravity
                              ELSE gs.gravity],
               clears, i + 1)
             : levelResult \in {updateAfterClear(gs.level, clears[i])} })

InitClear ==
  /\ \E case \in ClearCases, startLevel \in ClearLevels,
        clears \in ClearHistories, randomSeed \in Seeds, above \in 0..1 :
       \E gs \in {AfterClears(
                    startNewGame(initGame(startLevel, randomSeed),
                                 startLevel, randomSeed),
                    clears, 1)} :
         \E frameCounter \in {0, gs.gravity.framesPerDrop - 1} :
           gameState = [gs EXCEPT
                          !.board = case.board,
                          !.currentPiece =
                             [case.piece EXCEPT !.y = case.piece.y - above],
                          !.gravity.frameCounter = frameCounter,
                          !.frameCount = PlayFrame]
  /\ inputState = createInputState
  /\ gameLoop = PlayLoop
  /\ events = <<>>
  /\ run2 = Null
  /\ probe = FrameProbe(PlayFrame, 0, NoTick)

NextClear ==
  \/ KeyDown(DropKeys)
  \/ StepFrame(PlayFrame + MaxClearFrames)

SpecClear == InitClear /\ [][NextClear]_vars

(***************************************************************************)
(* Malformed input.  updateGame is handed a game whose piece is anywhere    *)
(* on the grid or off it, on top of locked cells included, or is missing    *)
(* (the state of startGame of gameState.js): lockPiece then refuses the     *)
(* lock.                                                                    *)
(***************************************************************************)
\* the pieces handed in: none, or any kind at any place
MalformedPieces ==
  {Null} \cup
  { PieceAt(type, x, y, 0) :
      type \in DOMAIN PIECES, x \in MinPieceX..(BOARD_WIDTH - 1),
      y \in 0..(TOTAL_ROWS - 1) }

\* logical frames explored
MaxMalformedFrames == 3

InitMalformed ==
  /\ \E piece \in MalformedPieces, randomSeed \in Seeds :
       gameState = [PlayState(randomSeed) EXCEPT !.currentPiece = piece]
  /\ inputState = createInputState
  /\ gameLoop = PlayLoop
  /\ events = <<>>
  /\ run2 = Null
  /\ probe = FrameProbe(PlayFrame, 0, NoTick)

NextMalformed ==
  \/ KeyDown(DropKeys)
  \/ StepFrame(PlayFrame + MaxMalformedFrames)

SpecMalformed == InitMalformed /\ [][NextMalformed]_vars

(***************************************************************************)
(* The pure functions called on their own: calculateLineClearScore on any   *)
(* line count and level, clearLines on boards whose rows are empty, complete *)
(* or partly filled.  probe holds the arguments and the result of the call. *)
(***************************************************************************)
\* highest level handed to calculateLineClearScore
MaxScoreLevel == 99

\* rows from the floor up that vary in the boards handed to clearLines
MaxClearRows == 4

\* a row of the boards: empty, complete, or filled in part in two ways
ClearRows ==
  {EmptyRow, [x \in 1..BOARD_WIDTH |-> 1],
   [x \in 1..BOARD_WIDTH |-> IF x = 1 THEN 2 ELSE 0],
   [x \in 1..BOARD_WIDTH |-> IF x = 6 THEN 0 ELSE 3]}

\* the top row and the MaxClearRows rows above the floor are any of ClearRows
ClearBoards ==
  { [y \in 1..TOTAL_ROWS |->
       IF y = 1 THEN rows[1]
       ELSE IF y > TOTAL_ROWS - MaxClearRows
       THEN rows[y - (TOTAL_ROWS - MaxClearRows) + 1]
       ELSE EmptyRow]
    : rows \in [1..(MaxClearRows + 1) -> ClearRows] }

InitCalls ==
  /\ gameState = initGame(0, U32(0, 3))
  /\ inputState = createInputState
  /\ gameLoop = createGameLoop
  /\ events = <<>>
  /\ run2 = Null
  /\ probe = [call |-> "none"]

CalculateLineClearScore ==
  /\ probe.call = "none"
  /\ \E linesCleared \in (0 - 2)..6, level \in (0 - 2)..MaxScoreLevel :
       probe' = [call |-> "calculateLineClearScore",
                 linesCleared |-> linesCleared, level |-> level,
                 points |-> calculateLineClearScore(linesCleared, level)]
  /\ UNCHANGED <<gameState, inputState, gameLoop, events, run2>>

ClearLines ==
  /\ probe.call = "none"
  /\ \E board \in ClearBoards :
       probe' = [call |-> "clearLines", board |-> board,
                 result |-> clearLines(board)]
  /\ UNCHANGED <<gameState, inputState, gameLoop, events, run2>>

\* an empty board, a stacked one, and one with a single cell left hanging
\* at row 10 by a line clear
LockBoards ==
  {createEmptyBoard, WellBoard, setCell(createEmptyBoard, 4, 10, 1)}

\* no piece, a piece without a kind, a piece without cells, and every kind
\* in two rotation states at every column and row, off the board included
LockPieces ==
  {Null, [PieceAt(1, 3, 0, 0) EXCEPT !.type = NullKind],
   [PieceAt(1, 3, 0, 0) EXCEPT !.cells = NullSeq]} \cup
  { PieceAt(type, x, y, rotation) :
      type \in DOMAIN PIECES, x \in MinPieceX..(BOARD_WIDTH - 1),
      y \in (0 - 1)..(TOTAL_ROWS - 1), rotation \in 0..1 }

LockPiece ==
  /\ probe.call = "none"
  /\ \E board \in LockBoards, piece \in LockPieces :
       probe' = [call |-> "lockPiece", board |-> board, piece |-> piece,
                 result |-> lockPiece(board, piece)]
  /\ UNCHANGED <<gameState, inputState, gameLoop, events, run2>>

\* states of the generator: small ones, whose product with the multiplier a
\* double holds exactly, and large ones, up to 0xFFFFFFFF
RandomizerStates ==
  { U32(hi, lo) : hi \in {0, 128, 32767, 65535},
                  lo \in {0, 1, 3, 9, 12345, 65535} }

NextPiece ==
  /\ probe.call = "none"
  /\ \E current \in RandomizerStates, seed \in Seeds :
       probe' = [call |-> "nextPiece", current |-> current,
                 result |-> nextPiece([seed |-> seed, current |-> current])]
  /\ UNCHANGED <<gameState, inputState, gameLoop, events, run2>>

NextCalls ==
  \/ CalculateLineClearScore
  \/ ClearLines
  \/ LockPiece
  \/ NextPiece

SpecCalls == InitCalls /\ [][NextCalls]_vars

(***************************************************************************)
(* Two drivers of the same game.  The first calls updateFrame after any     *)
(* elapsed time (half a frame, one frame, two frames) and then updateGame;  *)
(* the second, kept in run2, steps the same number of logical frames one    *)
(* frame at a time.  Both see the same keys.                               *)
(***************************************************************************)
\* logical frames explored
MaxCatchUpFrames == 4

\* k times updateFrame for one frame of elapsed time, then updateGame
RECURSIVE SingleFrames(_, _, _)
SingleFrames(run, is, k) ==
  IF k = 0 THEN run
  ELSE The({ SingleFrames(
               [gameLoop |-> f.gameLoop,
                gameState |-> updateGame(f.gameState, f.inputState).gameState],
               f.inputState, k - 1)
             : f \in {updateFrame(run.gameLoop, run.gameState, is,
                                  run.gameLoop.lastFrameTime
                                    + FRAME_DURATION)} })

InitCatchUp ==
  /\ \E randomSeed \in Seeds :
       /\ gameState = PlayState(randomSeed)
       /\ run2 = [gameLoop |-> PlayLoop, gameState |-> PlayState(randomSeed)]
  /\ inputState = createInputState
  /\ gameLoop = PlayLoop
  /\ events = <<>>
  /\ probe = FrameProbe(PlayFrame, 0, NoTick)

CatchUpStep ==
  /\ gameState.frameCount < PlayFrame + MaxCatchUpFrames
  /\ \E deltaTime \in DeltaTimes :
       \E f \in {updateFrame(gameLoop, gameState, inputState,
                              gameLoop.lastFrameTime + deltaTime)} :
         \E g \in {updateGame(f.gameState, f.inputState)} :
           /\ gameLoop' = f.gameLoop
           /\ inputState' = f.inputState
           /\ gameState' = g.gameState
           /\ events' = g.events
           /\ run2' = SingleFrames(run2, inputState,
                                   f.gameState.frameCount
                                     - gameState.frameCount)
  /\ UNCHANGED probe

NextCatchUp ==
  \/ KeyDown(DropKeys)
  \/ CatchUpStep

SpecCatchUp == InitCatchUp /\ [][NextCatchUp]_vars


\* ---------------------------------------------------------------------------
\* Environment: a game played to its end and the frames after it
\* ---------------------------------------------------------------------------

\* frames stepped after PlayFrame: the game ends within the first ten, the
\* animation takes TOTAL_ROWS more
MaxGameOverFrames == 36

NextGameOver ==
  \/ KeyDown(DropKeys)
  \/ KeyUp(DropKeys)
  \/ StepFrame(PlayFrame + MaxGameOverFrames)

SpecGameOver == InitPlay /\ [][NextGameOver]_vars


\* ---------------------------------------------------------------------------
\* Environment: a game in progress whose frames keep being stepped
\* ---------------------------------------------------------------------------

\* frames within which a piece spawned above WellBoard comes to rest and locks
LockFrames == 7

\* what a frame does to the loop: of the steps of NextPlay, the ones that
\* change gameLoop are exactly those of StepFrame(limit)
FrameStepped(limit) ==
  /\ gameLoop.isRunning
  /\ gameState.frameCount < limit \/ isGameOverAnimationActive(gameState)
  /\ gameLoop' = updateFrame(gameLoop, gameState, inputState,
                             gameLoop.lastFrameTime + FRAME_DURATION).gameLoop

\* updateFrame is the update function called each frame while the loop is
\* running: a frame that stays possible is eventually stepped
SpecLive ==
  /\ InitPlay
  /\ [][NextPlay]_vars
  /\ WF_gameLoop(FrameStepped(PlayFrame + MaxPlayFrames))


\* ---------------------------------------------------------------------------
\* Environment: key events on their own, with the order of the presses kept
\* ---------------------------------------------------------------------------

\* two keys for left, one for right, and one that is no direction key
InputKeys == {"a", "A", "d", "ArrowDown"}

DirectionKeys == KEY_MOVE_LEFT \cup KEY_MOVE_RIGHT

\* the direction keys held, in the order in which they were pressed
Without(held, key) == SelectSeq(held, LAMBDA k : k # key)

InitKeys ==
  /\ gameState = initGame(0, U32(0, 3))
  /\ inputState = createInputState
  /\ gameLoop = createGameLoop
  /\ events = <<>>
  /\ run2 = Null
  /\ probe = [held |-> <<>>]

PressKey ==
  /\ \E key \in InputKeys :
       /\ inputState' = handleKeyDown(inputState, key)
       /\ probe' = [held |-> IF key \in DirectionKeys
                                /\ key \notin inputState.keysPressed
                             THEN Append(probe.held, key)
                             ELSE probe.held]
  /\ UNCHANGED <<gameState, gameLoop, events, run2>>

ReleaseKey ==
  /\ \E key \in InputKeys :
       /\ inputState' = handleKeyUp(inputState, key)
       /\ probe' = [held |-> Without(probe.held, key)]
  /\ UNCHANGED <<gameState, gameLoop, events, run2>>

\* the end of a frame, as updateFrame's loop body has it
ClearTransientKeys ==
  /\ inputState' = clearTransientKeys(inputState)
  /\ UNCHANGED <<gameState, gameLoop, events, run2, probe>>

NextKeys == PressKey \/ ReleaseKey \/ ClearTransientKeys

SpecKeys == InitKeys /\ [][NextKeys]_vars

(***************************************************************************)
(* Properties.                                                              *)
(***************************************************************************)
\* the active piece and the absolute cells its kind, position and orientation
\* give it
ActivePiece == gameState.currentPiece

HasActivePiece == gameState.state = "playing" /\ ActivePiece # Null

\* the step is one logical frame of the lock-step driver
IsFrameStep == gameState'.frameCount = gameState.frameCount + 1

\* C1: two runs started with the same seed and fed the same inputs have
\* equal aggregate states after every frame
C1_Determinism == gameState.frameCount > 0 => gameState = run2

\* C2: in every reachable state, the frames of the game-over fill animation
\* included, the board has 22 rows of 10 cells, each cell in 0..7
C2_BoardShape ==
  /\ Len(gameState.board) = 22
  /\ \A y \in 1..Len(gameState.board) :
       /\ Len(gameState.board[y]) = 10
       /\ \A x \in 1..Len(gameState.board[y]) :
            gameState.board[y][x] \in 0..7

\* C2 witness: the fill animation has completed and filled the top row
C2_Witness ==
  /\ gameState.state = "gameover"
  /\ gameState.gameOverAnimation.completed
  /\ \A x \in 1..10 : gameState.board[1][x] # 0

\* C3: while the game is playing with an active piece, each of the piece's
\* four cells lies inside the grid on an empty cell of the board
C3_PieceFits ==
  HasActivePiece =>
    LET shape == PIECES[ActivePiece.type].rotations[ActivePiece.rotation + 1]
    IN /\ Len(shape) = 4
       /\ \A i \in 1..4 :
            LET cx == ActivePiece.x + shape[i].x
                cy == ActivePiece.y + shape[i].y
            IN /\ cx \in 0..9
               /\ cy \in 0..21
               /\ gameState.board[cy + 1][cx + 1] = 0

\* C3 witness: after a lock with a line clear and a spawn, the active piece
\* has been rotated, shifted, soft-dropped and has fallen
C3_Witness ==
  /\ HasActivePiece
  /\ gameState.level.totalLines > 0
  /\ ActivePiece.rotation # 0
  /\ ActivePiece.x # PIECES[ActivePiece.type].spawnX
  /\ ActivePiece.y > 1
  /\ gameState.score.softDropCells > 0

\* C4: a piece that touches the floor at the end of a frame is not shifted
\* or rotated by a later frame
C4_NoMoveAfterContact ==
  [][(/\ IsFrameStep
      /\ HasActivePiece
      /\ isPieceTouchingFloor(gameState.board, ActivePiece)
      /\ ~HasEvent(events', "PIECE_LOCKED"))
     => /\ gameState'.currentPiece.x = ActivePiece.x
        /\ gameState'.currentPiece.rotation = ActivePiece.rotation]_vars

\* C5: when the cells of the rotated piece would leave the grid or overlap
\* the stack, tryRotate returns success = FALSE and the piece unchanged, and
\* the handler leaves the active piece as it was
C5_NoKick ==
  probe.rotated =>
    LET piece == probe.piece
        newRotation == (piece.rotation + probe.direction + 4) % 4
        shape == PIECES[piece.type].rotations[newRotation + 1]
        collides ==
          \E i \in 1..4 :
            LET cx == piece.x + shape[i].x
                cy == piece.y + shape[i].y
            IN \/ cx \notin 0..9
               \/ cy \notin 0..21
               \/ gameState.board[cy + 1][cx + 1] # 0
    IN IF collides
       THEN /\ probe.result.success = FALSE
            /\ probe.result.piece = piece
            /\ gameState.currentPiece = piece
       ELSE /\ probe.result.success = TRUE
            /\ probe.result.piece.rotation = newRotation
            /\ probe.result.piece.x = piece.x
            /\ probe.result.piece.y = piece.y

\* C5 witness: a rotation next to the stack was refused although the piece
\* would fit one column to the left
C5_Witness ==
  /\ probe.rotated
  /\ ~probe.result.success
  /\ gameState.currentPiece = probe.piece
  /\ ~checkCollision(gameState.board, probe.piece.type, probe.piece.x - 1,
                     probe.piece.y,
                     (probe.piece.rotation + probe.direction + 4) % 4)

C7_DASCadence ==
  (probe.tick.direction # DIRECTION_NONE /\ probe.hold < 60) =>
    (probe.tick.shouldMove <=>
       probe.hold \in {0, 16, 22, 28, 34, 40, 46, 52, 58})

\* C7 witness: the ninth move, at offset 58
C7_Witness ==
  /\ probe.tick.direction # DIRECTION_NONE
  /\ probe.hold = 58
  /\ probe.tick.shouldMove

\* C8: after a frame, shouldApplyDAS is true exactly when the DAS tick of
\* that frame returned shouldMove = TRUE
C8_ApplyIffTick ==
  gameState.state = "playing" =>
    (shouldApplyDAS(gameState) <=> probe.tick.shouldMove)

\* C9: every queued rotate action is applied exactly once: none leaves the
\* queue unapplied, none is applied twice
C9_ExactlyOnce ==
  /\ ~probe.discarded
  /\ \A i \in 1..Len(probe.applied) : probe.applied[i] <= 1

\* C10: the game goes from playing to gameover exactly in a frame in which
\* a piece locked and the next piece collides at its spawn position with the
\* resulting board; the fill animation is then started at row 21, GAME_OVER
\* is emitted and PIECE_SPAWNED is not; gameover is entered in no other way
C10_GameOverEntry ==
  [][LET entered == gameState.state # "gameover"
                    /\ gameState'.state = "gameover"
         next == PIECES[gameState.nextPiece]
         spawnCollides ==
           \E i \in 1..4 :
             gameState'.board[next.spawnY + next.rotations[1][i].y + 1]
                             [next.spawnX + next.rotations[1][i].x + 1] # 0
         lockedOut == /\ IsFrameStep
                      /\ gameState.state = "playing"
                      /\ HasEvent(events', "PIECE_LOCKED")
                      /\ spawnCollides
     IN /\ entered <=> lockedOut
        /\ entered =>
             /\ gameState'.gameOverAnimation =
                  [active |-> TRUE, currentRow |-> 21, completed |-> FALSE]
             /\ HasEvent(events', "GAME_OVER")
             /\ ~HasEvent(events', "PIECE_SPAWNED")]_vars

\* C10 witness: the frame of the transition
C10_Witness ==
  /\ gameState.state = "gameover"
  /\ HasEvent(events, "PIECE_LOCKED")
  /\ HasEvent(events, "GAME_OVER")
  /\ gameState.gameOverAnimation.currentRow = 21

\* C11: while the game is playing on a board whose two hidden rows are
\* entirely filled, no kind can spawn, and the next frame ends the game and
\* emits GAME_OVER
C11_BlockedSpawnEndsGame ==
  [][(/\ gameState.state = "playing"
      /\ \A y \in 1..2 : \A x \in 1..10 : gameState.board[y][x] # 0)
     => /\ \A type \in 1..7 : ~canSpawnPiece(gameState.board, type)
        /\ IsFrameStep => /\ gameState'.state = "gameover"
                          /\ HasEvent(events', "GAME_OVER")]_vars

\* C12: the status changes only from title or gameover to playing, between
\* playing and paused, from playing to gameover, and to title; and a call
\* of startNewGame in another status than title or gameover changes nothing
C12_StatusEdges ==
  [][/\ gameState'.state # gameState.state =>
          \/ gameState'.state = "title"
          \/ <<gameState.state, gameState'.state>> \in
               {<<"title", "playing">>, <<"gameover", "playing">>,
                <<"playing", "paused">>, <<"paused", "playing">>,
                <<"playing", "gameover">>}
     /\ (/\ gameState.state \notin {"title", "gameover"}
         /\ \E startLevel \in NewGameLevels, randomSeed \in Seeds :
              gameState' = startNewGame(gameState, startLevel, randomSeed))
        => gameState' = gameState]_vars

\* C13: an animation frame stepped while the game is paused or at the title
\* leaves the whole game state as it was and emits no event
C13_PauseFreezes ==
  [][(/\ gameLoop'.frameCount = gameLoop.frameCount + 1
      /\ gameState.state \in {"paused", "title"})
     => /\ gameState' = gameState
        /\ events' = <<>>]_vars


\* C14: a togglePause, pauseGame or resumeGame step changes nothing of the game
\* state but its status (board, pieces, score, level, randomizer, gravity, DAS
\* and the rest are as before), and in title or gameover togglePause changes
\* nothing at all
C14_PauseOnlyStatus ==
  [][(TogglePause \/ PauseGame \/ ResumeGame)
       => /\ [gameState' EXCEPT !.state = gameState.state] = gameState
          /\ (TogglePause /\ gameState.state \in {"title", "gameover"})
               => gameState' = gameState]_vars

\* a game paused in mid-play: gravity has counted frames and a piece is falling
C14_Witness ==
  /\ gameState.state = "paused"
  /\ gameState.currentPiece # Null
  /\ gameState.gravity.frameCounter > 0
  /\ gameState.frameCount > PlayFrame


\* C15: a return to the title, by either returnToTitle, sets the status to
\* title and leaves the board, the score state and the randomizer state as
\* they were
C15_ReturnToTitlePure ==
  [][(ReturnToTitle \/ ReturnToTitleState)
       => /\ gameState'.state = "title"
          /\ gameState'.board = gameState.board
          /\ gameState'.score = gameState.score
          /\ gameState'.randomizer = gameState.randomizer]_vars


C17_LevelProgression ==
  /\ [](/\ gameState.level.currentLevel
             = Min(99, gameState.level.startLevel
                         + (gameState.level.totalLines \div 10))
        /\ gameState.level.currentLevel <= 99)
  /\ [][gameState'.level.currentLevel >= gameState.level.currentLevel]_vars

\* a line clear at the cap: the start level and the lines cleared add up to
\* more than MAX_LEVEL and the level is MAX_LEVEL
C17_Witness ==
  /\ HasEvent(events, "PIECE_LOCKED")
  /\ gameState.level.totalLines >= 10
  /\ gameState.level.startLevel + (gameState.level.totalLines \div 10) > 99
  /\ gameState.level.currentLevel = 99


\* C18: in a frame of a game being played with the soft-drop key held, the soft
\* drop is attempted once: if the cells one row below the piece are free it
\* moves the piece down one row (a gravity fall of the same frame comes on top)
\* and adds exactly 1 to totalScore, softDropCells and softDropScore, whatever
\* the level (the points of a line clear of the same frame come on top); if
\* they are not, it moves nothing and scores nothing
C18_SoftDropOnce ==
  [][(/\ IsFrameStep
      /\ HasActivePiece
      /\ isSoftDropping(inputState'))
     => LET dropped == HasEvent(events', "SOFT_DROP")
            locked == HasEvent(events', "PIECE_LOCKED")
            step == IF dropped THEN 1 ELSE 0
            fall == IF HasEvent(events', "PIECE_FELL") THEN 1 ELSE 0
            clearPoints == IF locked /\ (gameState'.score.linesCleared
                                           > gameState.score.linesCleared)
                           THEN gameState'.score.lastClearScore ELSE 0
        IN /\ Cardinality({i \in 1..Len(events') :
                             events'[i].type = "SOFT_DROP"}) <= 1
           /\ gameState'.score.softDropScore
                = gameState.score.softDropScore + step
           /\ gameState'.score.softDropCells
                = gameState.score.softDropCells + step
           /\ gameState'.score.totalScore
                = gameState.score.totalScore + step + clearPoints
           /\ ~locked =>
                /\ gameState'.currentPiece.y = ActivePiece.y + step + fall
                /\ dropped <=>
                     canMovePiece(gameState.board,
                                  [gameState'.currentPiece EXCEPT
                                     !.y = ActivePiece.y], 0, 1)]_vars

\* a soft drop has moved the piece and scored its point, at a level above 0
C18_Witness ==
  /\ HasEvent(events, "SOFT_DROP")
  /\ isSoftDropping(inputState)
  /\ gameState.score.softDropScore = 1
  /\ gameState.level.currentLevel > 0


C20_EventTypes ==
  \A i \in 1..Len(events) :
    events[i].type \in {"PIECE_FELL", "PIECE_LOCKED", "PIECE_SPAWNED",
                        "GAME_OVER", "GAME_OVER_ANIMATION_COMPLETE"}

\* C20, amended: every event a frame returns is one of the five above or
\* SOFT_DROP (with cells = 1), PIECE_LOCKED carrying linesCleared in 0..4
C20_EventTypesWithSoftDrop ==
  \A i \in 1..Len(events) :
    /\ events[i].type \in {"SOFT_DROP", "PIECE_FELL", "PIECE_LOCKED",
                           "PIECE_SPAWNED", "GAME_OVER",
                           "GAME_OVER_ANIMATION_COMPLETE"}
    /\ events[i].type = "PIECE_LOCKED" =>
         /\ DOMAIN events[i] = {"type", "linesCleared"}
         /\ events[i].linesCleared \in 0..4
    /\ events[i].type = "SOFT_DROP" =>
         /\ DOMAIN events[i] = {"type", "cells"}
         /\ events[i].cells = 1
    /\ events[i].type \notin {"PIECE_LOCKED", "SOFT_DROP"} =>
         DOMAIN events[i] = {"type"}

\* a frame has returned SOFT_DROP, then PIECE_LOCKED with cleared lines, then
\* PIECE_SPAWNED
C20_Witness ==
  /\ Len(events) = 3
  /\ events[1].type = "SOFT_DROP"
  /\ events[2].type = "PIECE_LOCKED"
  /\ events[2].linesCleared > 0
  /\ events[3].type = "PIECE_SPAWNED"


C22_ClearLinesRoundTrip ==
  probe.call = "clearLines" =>
    LET Incomplete(row) == \E x \in 1..BOARD_WIDTH : row[x] = 0
        k == Cardinality({y \in 1..TOTAL_ROWS : ~Incomplete(probe.board[y])})
        result == probe.result
    IN /\ result.clearedLines = k
       /\ Len(result.board) = 22
       /\ \A y \in 1..k : \A x \in 1..BOARD_WIDTH : result.board[y][x] = 0
       /\ SubSeq(result.board, k + 1, TOTAL_ROWS)
            = SelectSeq(probe.board, Incomplete)
       /\ k = 0 => result.board = probe.board
       /\ clearLines(result.board)
            = [board |-> result.board, clearedLines |-> 0]

\* three complete rows, the top row among them, have been cleared from a board
\* with filled cells in other rows, which have come down to the floor
C22_Witness ==
  /\ probe.call = "clearLines"
  /\ probe.result.clearedLines = 3
  /\ \A x \in 1..BOARD_WIDTH : probe.board[1][x] # 0
  /\ probe.board[TOTAL_ROWS] # probe.result.board[TOTAL_ROWS]
  /\ probe.result.board[TOTAL_ROWS] # EmptyRow


\* C23: however the elapsed time is split into calls of updateFrame, after N
\* logical frames the game state is the one N single-frame steps give
C23_CatchUpEquivalence ==
  gameState = run2.gameState


\* C24: in a frame that emits PIECE_SPAWNED the new active piece has the kind
\* that was the next kind, is at the spawn place of that kind (column 4 for O,
\* column 3 for the others, row 0) in rotation state 0; the randomizer is one
\* LCG step further, its seed unchanged, and the new next kind is the kind of
\* that draw; and the gravity frame counter is 0
C24_SpawnSequence ==
  [][(IsFrameStep /\ HasEvent(events', "PIECE_SPAWNED"))
     => /\ gameState'.currentPiece # Null
        /\ gameState'.currentPiece.type = gameState.nextPiece
        /\ gameState'.currentPiece.x
             = (IF gameState.nextPiece = 2 THEN 4 ELSE 3)
        /\ gameState'.currentPiece.y = 0
        /\ gameState'.currentPiece.rotation = 0
        /\ gameState'.currentPiece.cells
             = PIECES[gameState.nextPiece].rotations[1]
        /\ gameState'.randomizer.seed = gameState.randomizer.seed
        /\ gameState'.randomizer.current
             = lcgStep(gameState.randomizer.current)
        /\ gameState'.nextPiece
             = lcgToPieceType(gameState'.randomizer.current)
        /\ gameState'.gravity.frameCounter = 0]_vars

\* a piece has just been spawned after a lock, in the frame's last step
C24_Witness ==
  /\ Len(events) >= 2
  /\ events[Len(events) - 1].type = "PIECE_LOCKED"
  /\ events[Len(events)].type = "PIECE_SPAWNED"
  /\ gameState.state = "playing"
  /\ ActivePiece # Null
  /\ ActivePiece.y = 0


\* C25: when startNewGame has begun a game, the active piece has the kind of
\* the 1st draw from the randomizer's seed, the next piece the kind of the 2nd
\* draw, and the randomizer is two LCG steps past its seed
C25_FirstTwoDraws ==
  [][(gameState.state = "title" /\ gameState'.state = "playing")
     => LET seed == gameState'.randomizer.seed
            first == lcgStep(seed)
            second == lcgStep(first)
        IN /\ gameState'.currentPiece # Null
           /\ gameState'.currentPiece.type = lcgToPieceType(first)
           /\ gameState'.nextPiece = lcgToPieceType(second)
           /\ gameState'.randomizer.current = second]_vars


\* C26: a call of updateGame on a game being played consumes every queued
\* action: each has been applied when the call returns and the action queue is
\* empty afterwards
C26_QueueDrained ==
  [][(/\ probe'.calls = probe.calls + 1
      /\ isPlaying(gameState)
      /\ inputState.actionQueue # <<>>)
     => /\ \A i \in 1..Len(probe'.applied) : probe'.applied[i] >= 1
        /\ inputState'.actionQueue = <<>>]_vars


\* C27: a frame emits at most one PIECE_LOCKED; in a frame that emits it, it
\* is followed in the events list by exactly one of PIECE_SPAWNED and
\* GAME_OVER and no PIECE_FELL is emitted; PIECE_SPAWNED and GAME_OVER are
\* never emitted without a PIECE_LOCKED before them in the same frame
C27_EventOrdering ==
  [][IsFrameStep =>
       LET evs == events'
           locked == {i \in 1..Len(evs) : evs[i].type = "PIECE_LOCKED"}
           after == {i \in 1..Len(evs) :
                       evs[i].type \in {"PIECE_SPAWNED", "GAME_OVER"}}
       IN /\ Cardinality(locked) <= 1
          /\ locked # {} => /\ Cardinality(after) = 1
                            /\ ~HasEvent(evs, "PIECE_FELL")
          /\ \A j \in after : \E i \in locked : i < j]_vars

C27_Witness ==
  /\ Len(events) = 2
  /\ events[1].type = "PIECE_LOCKED"
  /\ events[2].type = "GAME_OVER"
  /\ gameState.state = "gameover"


\* C28: the game over animation starts at row 21 when the game ends; each
\* frame fills exactly the current row and moves one row up; the frame that
\* fills row 0, the 22nd, marks the animation complete with every cell of the
\* board non-zero and is the only one to emit GAME_OVER_ANIMATION_COMPLETE;
\* every later frame leaves the state unchanged and emits no event
C28_GameOverAnimation ==
  [][IsFrameStep =>
       LET anim == gameState.gameOverAnimation
           anim2 == gameState'.gameOverAnimation
           row == anim.currentRow + 1
       IN /\ HasEvent(events', "GAME_OVER")
             => /\ gameState'.state = "gameover"
                /\ anim2.active /\ ~anim2.completed
                /\ anim2.currentRow = 21
          /\ (gameState.state = "gameover" /\ ~anim.completed)
             => /\ gameState'.state = "gameover"
                /\ anim2.currentRow = anim.currentRow - 1
                /\ \A x \in 1..BOARD_WIDTH : gameState'.board[row][x] # 0
                /\ \A y \in 1..TOTAL_ROWS :
                     y # row => gameState'.board[y] = gameState.board[y]
                /\ anim2.completed <=> anim.currentRow = 0
                /\ anim2.completed
                   => /\ \A y \in 1..TOTAL_ROWS, x \in 1..BOARD_WIDTH :
                           gameState'.board[y][x] # 0
                      /\ events' = <<[type |-> "GAME_OVER_ANIMATION_COMPLETE"]>>
                /\ ~anim2.completed => events' = <<>>
          /\ (gameState.state = "gameover" /\ anim.completed)
             => /\ gameState' = gameState
                /\ events' = <<>>]_vars


C30_OneRowPerFrame ==
  [][(/\ IsFrameStep
      /\ HasActivePiece
      /\ ~HasEvent(events', "PIECE_LOCKED"))
     => /\ gameState'.currentPiece.y <= ActivePiece.y + 1
        /\ ~(HasEvent(events', "SOFT_DROP") /\ HasEvent(events', "PIECE_FELL"))
    ]_vars

\* C30, amended: in a frame of a game being played the soft-drop shift and the
\* gravity fall are each applied at most once, each moves the piece one row,
\* and both are applied when the soft-drop key is held in a frame in which a
\* fall is due: the active piece descends by at most two rows
C30_OneRowPerShift ==
  [][(IsFrameStep /\ HasActivePiece)
     => LET shifts == {i \in 1..Len(events') : events'[i].type = "SOFT_DROP"}
            falls == {i \in 1..Len(events') : events'[i].type = "PIECE_FELL"}
        IN /\ Cardinality(shifts) <= 1
           /\ Cardinality(falls) <= 1
           /\ \A i \in shifts : events'[i].cells = 1
           /\ ~HasEvent(events', "PIECE_LOCKED")
              => /\ gameState'.currentPiece.y
                      = ActivePiece.y + Cardinality(shifts) + Cardinality(falls)
                 /\ gameState'.currentPiece.y <= ActivePiece.y + 2
                 /\ (/\ isSoftDropping(inputState')
                     /\ shouldApplyGravity(gameState')
                     /\ \A dy \in 1..2 :
                          canMovePiece(gameState.board,
                                       [gameState'.currentPiece EXCEPT
                                          !.y = ActivePiece.y], 0, dy))
                    => gameState'.currentPiece.y = ActivePiece.y + 2]_vars

\* a frame has shifted the piece by soft drop and let it fall as well
C30_Witness ==
  /\ Len(events) = 2
  /\ events[1].type = "SOFT_DROP"
  /\ events[2].type = "PIECE_FELL"
  /\ HasActivePiece
  /\ ActivePiece.y >= 2


\* C31: the DAS direction is that of the most recently pressed direction key
\* that is still held, and none only when no direction key is held
C31_LastPressedWins ==
  LET held == probe.held
      last == held[Len(held)]
  IN /\ held = <<>> <=> inputState.dasDirection = DIRECTION_NONE
     /\ held # <<>> =>
          inputState.dasDirection = IF last \in KEY_MOVE_LEFT
                                    THEN DIRECTION_LEFT ELSE DIRECTION_RIGHT


\* C32: setDirection returns the DAS state unchanged for the direction it has
\* and resets counter to 0 and isActive to FALSE for any other; so a frame
\* entered with the direction already held lets the counter run on and keeps
\* the repeat phase
C32_SetDirection ==
  /\ [](\A direction \in {DIRECTION_LEFT, DIRECTION_NONE, DIRECTION_RIGHT} :
          LET das == gameState.das
              result == setDirection(das, direction)
          IN IF direction = das.direction
             THEN result = das
             ELSE /\ result.direction = direction
                  /\ result.counter = 0
                  /\ ~result.isActive)
  /\ [][(/\ IsFrameStep
         /\ getDASDirection(inputState) # DIRECTION_NONE
         /\ getDASDirection(inputState) = gameState.das.direction)
        => /\ gameState'.das.direction = gameState.das.direction
           /\ gameState'.das.counter = gameState.das.counter + 1
           /\ gameState.das.isActive => gameState'.das.isActive]_vars

\* the direction has been held through the delay and into the repeat phase,
\* and the other direction is then pressed
C32_Witness ==
  /\ gameState.das.isActive
  /\ gameState.das.counter > DAS_DELAY_FRAMES + DAS_ARR_FRAMES
  /\ getDASDirection(inputState) # gameState.das.direction
  /\ getDASDirection(inputState) # DIRECTION_NONE


\* C33: a DAS shift that is blocked leaves the piece where it is and advances
\* the DAS timer as a successful one does: tickAndMove returns the state of
\* the tick whatever the board, and a frame in which the piece is not locked
\* leaves the DAS state of its tick and, when the shift it applies is blocked,
\* the column of the piece
C33_BlockedShift ==
  /\ [](HasActivePiece =>
          \A direction \in {DIRECTION_LEFT, DIRECTION_RIGHT} :
            LET das == setDirection(gameState.das, direction)
                tickResult == dasTick(das, gameState.frameCount)
                result == tickAndMove(gameState.board, ActivePiece, das,
                                      gameState.frameCount)
                blocked == ~canMovePiece(gameState.board, ActivePiece,
                                         direction, 0)
            IN /\ result.das = tickResult.das
               /\ result.direction = tickResult.direction
               /\ (tickResult.shouldMove /\ blocked)
                  => (~result.moved /\ result.piece = ActivePiece)
               /\ (tickResult.shouldMove /\ ~blocked)
                  => /\ result.moved
                     /\ result.piece = [ActivePiece EXCEPT
                                          !.x = ActivePiece.x + direction])
  /\ [][(IsFrameStep /\ HasActivePiece /\ ~HasEvent(events', "PIECE_LOCKED"))
        => /\ gameState'.das = FrameTick(gameLoop, gameState, inputState).das
           /\ (/\ shouldApplyDAS(gameState')
               /\ ~canMovePiece(gameState.board, ActivePiece,
                                gameState'.das.direction, 0))
              => gameState'.currentPiece.x = ActivePiece.x]_vars

\* the piece is against a wall in the repeat phase and a frame has just
\* applied a shift towards the wall
C33_Witness ==
  /\ HasActivePiece
  /\ gameState.das.isActive
  /\ shouldApplyDAS(gameState)
  /\ ~canMovePiece(gameState.board, ActivePiece, gameState.das.direction, 0)
  /\ gameState.das.counter > DAS_DELAY_FRAMES + 2 * DAS_ARR_FRAMES


\* C34: lockPiece fails, with no board and an error, for a piece that is
\* missing or lacks its kind or its cells (Invalid piece), else for a piece
\* that collides where it is (Piece in invalid position), else for a piece
\* that can still move down one row (Piece not touching floor); in every
\* other case it succeeds and returns a new board, with no error
C34_LockPieceErrors ==
  probe.call = "lockPiece" =>
    LET board == probe.board
        piece == probe.piece
        result == probe.result
        failed(error) == result = [board |-> NullSeq, locked |-> FALSE,
                                   error |-> error]
    IN IF piece = Null \/ piece.type = NullKind \/ piece.cells = NullSeq
       THEN failed("Invalid piece")
       ELSE IF checkCollision(board, piece.type, piece.x, piece.y,
                              piece.rotation)
       THEN failed("Piece in invalid position")
       ELSE IF canMovePiece(board, piece, 0, 1)
       THEN failed("Piece not touching floor")
       ELSE /\ result.locked
            /\ result.error = NoError
            /\ result.board # NullSeq
            /\ result.board # board
            /\ DOMAIN result.board = DOMAIN board

\* a piece that overlaps the hanging cell with free rows below it: both the
\* second and the third check would reject it
C34_Witness ==
  /\ probe.call = "lockPiece"
  /\ probe.piece # Null
  /\ probe.piece.type # NullKind
  /\ probe.piece.cells # NullSeq
  /\ checkCollision(probe.board, probe.piece.type, probe.piece.x,
                    probe.piece.y, probe.piece.rotation)
  /\ canMovePiece(probe.board, probe.piece, 0, 1)
  /\ probe.result.error = "Piece in invalid position"


\* C35: no step other than the start of a new game lowers totalScore,
\* linesCleared, tetrises, softDropCells, softDropScore or highScore
C35_ScoreMonotone ==
  [][\/ \E startLevel \in NewGameLevels, randomSeed \in Seeds :
          gameState' = startNewGame(gameState, startLevel, randomSeed)
     \/ /\ gameState'.score.totalScore >= gameState.score.totalScore
        /\ gameState'.score.linesCleared >= gameState.score.linesCleared
        /\ gameState'.score.tetrises >= gameState.score.tetrises
        /\ gameState'.score.softDropCells >= gameState.score.softDropCells
        /\ gameState'.score.softDropScore >= gameState.score.softDropScore
        /\ gameState'.score.highScore >= gameState.score.highScore]_vars


\* (0x41C64E6D * current + 0x3039) mod 2^32, on the bytes of the full product
LcgExact(current) ==
  LET sum == AddSmall(MulBytes(ToBytes(LCG_MULTIPLIER), ToBytes(current)),
                      LCG_INCREMENT)
  IN U32(sum[3] + 256 * sum[4], sum[1] + 256 * sum[2])

\* C36: nextPiece stores (0x41C64E6D * current + 0x3039) mod 2^32 as the new
\* current, with no low-order bit lost, and returns the kind
\* ((next >> 10) & 0x7FFFFFFF) mod 7 + 1, which is in 1..7
C36_LcgExact ==
  probe.call = "nextPiece" =>
    LET next == probe.result.randomizer.current
    IN /\ next = LcgExact(probe.current)
       /\ probe.result.pieceType
            = ((next.hi * 64 + next.lo \div 1024) % 7) + 1
       /\ probe.result.pieceType \in 1..7


\* C37: the gravity counter stays within 0..framesPerDrop - 1; a frame leaves
\* it at 0 exactly when its tick makes it reach framesPerDrop, when the level
\* changes or when a piece is spawned, and a key event leaves the timer as
\* it is
C37_GravityCounter ==
  /\ [](/\ gameState.gravity.frameCounter >= 0
        /\ gameState.gravity.frameCounter < gameState.gravity.framesPerDrop)
  /\ [][IF IsFrameStep
        THEN gameState'.gravity.frameCounter = 0
             <=> \/ gameState.gravity.frameCounter + 1
                      >= gameState.gravity.framesPerDrop
                 \/ gameState'.level.currentLevel
                      # gameState.level.currentLevel
                 \/ HasEvent(events', "PIECE_SPAWNED")
        ELSE gameState'.gravity = gameState.gravity]_vars

\* a line clear has just raised the level and the timer starts from 0 at
\* the new speed
C37_Witness ==
  /\ gameState.state = "playing"
  /\ HasEvent(events, "PIECE_SPAWNED")
  /\ gameState.level.currentLevel > gameState.level.startLevel
  /\ gameState.gravity.frameCounter = 0
  /\ gameState.gravity.framesPerDrop
       = getGravityForLevel(gameState.level.currentLevel)


\* C38: in every state the gravity timer of the game state and the one kept
\* in the level state both have the current level and the fall interval of
\* the table for min(currentLevel, 20)
C38_GravityInSync ==
  LET currentLevel == gameState.level.currentLevel
      framesPerDrop == GRAVITY_TABLE[Min(currentLevel, 20) + 1]
  IN /\ gameState.gravity.level = currentLevel
     /\ gameState.gravity.framesPerDrop = framesPerDrop
     /\ gameState.level.gravity.level = currentLevel
     /\ gameState.level.gravity.framesPerDrop = framesPerDrop


\* C39: a lock that succeeds changes exactly 4 cells of the board: the cells
\* that getPieceCells gives for the piece's kind, rotation state and
\* position; each was empty, each holds the piece's kind afterwards, and
\* every other cell keeps its value
C39_LockWritesFourCells ==
  (probe.call = "lockPiece" /\ probe.result.locked) =>
    LET board == probe.board
        piece == probe.piece
        newBoard == probe.result.board
        cells == getPieceCells(piece.type, piece.x, piece.y, piece.rotation)
        written == {<<cells[i].x, cells[i].y>> : i \in 1..Len(cells)}
    IN /\ Cardinality(written) = 4
       /\ \A x \in 0..(BOARD_WIDTH - 1), y \in 0..(TOTAL_ROWS - 1) :
            IF <<x, y>> \in written
            THEN /\ getCell(board, x, y) = 0
                 /\ getCell(newBoard, x, y) = piece.type
            ELSE getCell(newBoard, x, y) = getCell(board, x, y)
       /\ written \subseteq
            (0..(BOARD_WIDTH - 1)) \X (0..(TOTAL_ROWS - 1))

\* a rotated piece has been locked onto the stack
C39_Witness ==
  /\ probe.call = "lockPiece"
  /\ probe.result.locked
  /\ probe.piece.rotation = 1
  /\ probe.board = WellBoard
  /\ probe.piece.y + 2 < TOTAL_ROWS - 1

\* the number of the first tick from a DAS state that reports a shift, the
\* direction held throughout
RECURSIVE TicksUntilMove(_)
TicksUntilMove(das) ==
  IF dasTick(das, 0).shouldMove
  THEN 1
  ELSE 1 + TicksUntilMove(dasTick(das, 0).das)

\* C40: in every DAS state reached by holding a direction,
\* getFramesUntilNextMove is n exactly when the next tick that reports a
\* shift is the (n+1)-th tick from that state, 0 meaning that the very next
\* tick shifts
C40_FramesUntilNextMove ==
  gameState.das.direction # DIRECTION_NONE
    => getFramesUntilNextMove(gameState.das) + 1
         = TicksUntilMove(gameState.das)

====
